---- MODULE Spec2Model ----
(***************************************************************************)
(* A model of xml.go of the mxj package: the decoder xmlToMapParser, which *)
(* folds the token stream of an xml.Decoder into a map[string]interface{}, *)
(* and the encoder marshalMapToXmlIndent behind Map.Xml and Map.XmlIndent. *)
(*                                                                         *)
(* A Go string is a sequence of one-character strings, so that prefixes,   *)
(* trimming, ordering and the encoder's output are computed byte by byte.  *)
(* An interface{} value is a record [k |-> its dynamic type, v |-> ...]:   *)
(* for "string" the characters, for a number or a bool its %v text, for    *)
(* "map" a function from keys to values, for "[]interface{}" a sequence.   *)
(***************************************************************************)
EXTENDS Integers, Sequences, FiniteSets, TLC

VARIABLES
    g,        \* the package-level policy variables (attrPrefix, textK, ...)
    dec,      \* the running xmlToMapParser call: its frames, its result
    open,     \* elements the tokenizer has opened and not yet closed
    starts,   \* StartElement tokens the tokenizer has delivered
    mv,       \* the Map the caller holds
    rootTag,  \* the rootTag ...string argument of Xml / XmlIndent
    enc,      \* what Xml / XmlIndent returned: [b, err]
    redec,    \* what NewMapXml returned for the encoder's bytes
    calls,    \* history: the encoder calls made, each with what it returned
    pc        \* where the caller is

vars == <<g, dec, open, starts, mv, rootTag, enc, redec, calls, pc>>

----------------------------------------------------------------------------
(* Bounds of the model. *)

MaxElems == 4      \* StartElement tokens in one document
MaxSeqLen == 2     \* members of a []interface{} the caller builds
MaxCalls == 2      \* encoder calls on one Map
MaxDocs == 3       \* documents in the reader of HandleXmlReader
MaxRenames == 3    \* SetGlobalKeyMapPrefix calls in one run

----------------------------------------------------------------------------
(* Strings. *)

\* The characters the model uses, in ascending byte order.
Ascii ==
    << "\t", "\n", "\r", " ", "\"", "#", "$", "&", "'", "+", "-", ".", "/",
       "0", "1", "2", "3", "4", "5", "6", "7", "8", "9",
       ":", ";", "<", "=", ">",
       "A", "B", "C", "D", "E", "F", "G", "H", "I", "J", "K", "L", "M",
       "N", "O", "P", "Q", "R", "S", "T", "U", "V", "W", "X", "Y", "Z",
       "[", "]", "_",
       "a", "b", "c", "d", "e", "f", "g", "h", "i", "j", "k", "l", "m",
       "n", "o", "p", "q", "r", "s", "t", "u", "v", "w", "x", "y", "z",
       "{", "}" >>

Ord(c) == CHOOSE i \in 1..Len(Ascii) : Ascii[i] = c

MinOf(S) == CHOOSE i \in S : \A j \in S : i <= j

\* Go's s <= t on strings: bytewise lexicographic.
StrLE(s, t) ==
    LET n == IF Len(s) < Len(t) THEN Len(s) ELSE Len(t)
        d == {i \in 1..n : s[i] # t[i]}
    IN  IF d = {} THEN Len(s) <= Len(t)
        ELSE Ord(s[MinOf(d)]) < Ord(t[MinOf(d)])

HasPrefix(s, p) == Len(p) <= Len(s) /\ SubSeq(s, 1, Len(p)) = p

\* strings.Trim(s, cutset)
Trim(s, cutset) ==
    LET keep == {i \in 1..Len(s) : s[i] \notin cutset}
    IN  IF keep = {} THEN <<>>
        ELSE SubSeq(s, MinOf(keep), CHOOSE i \in keep : \A j \in keep : j <= i)

RECURSIVE Flatten(_)
Flatten(ss) == IF ss = <<>> THEN <<>> ELSE Head(ss) \o Flatten(Tail(ss))

\* strings.ToLower
ToLowerChar(c) ==
    IF Ord(c) \in Ord("A")..Ord("Z") THEN Ascii[Ord(c) - Ord("A") + Ord("a")]
    ELSE c

ToLower(s) == [i \in 1..Len(s) |-> ToLowerChar(s[i])]

\* strings.Replace(s, "-", "_", -1)
SnakeCase(s) == [i \in 1..Len(s) |-> IF s[i] = "-" THEN "_" ELSE s[i]]

\* strconv.Itoa / %v of a non-negative int
RECURSIVE Itoa(_)
Itoa(i) ==
    IF i < 10 THEN <<Ascii[Ord("0") + i]>>
    ELSE Itoa(i \div 10) \o <<Ascii[Ord("0") + (i % 10)]>>

----------------------------------------------------------------------------
(* Values. *)

Str(s) == [k |-> "string", v |-> s]
MapV(m) == [k |-> "map", v |-> m]
Slice(q) == [k |-> "[]interface{}", v |-> q]
Nil == [k |-> "nil", v |-> <<>>]

EmptyMap == <<>>

\* m[key] = val
Put(m, key, val) ==
    [x \in DOMAIN m \cup {key} |-> IF x = key THEN val ELSE m[x]]

MapLen(m) == Cardinality(DOMAIN m)

----------------------------------------------------------------------------
(* The policy variables and their defaults. *)

DefaultRootTag == <<"d", "o", "c">>

Defaults ==
    [ textK |-> <<"$">>,
      seqK |-> <<"#", "s", "e", "q">>,
      commentK |-> <<"#", "c", "o", "m", "m", "e", "n", "t">>,
      attrK |-> <<"#", "a", "t", "t", "r">>,
      directiveK |-> <<"#", "d", "i", "r", "e", "c", "t", "i", "v", "e">>,
      procinstK |-> <<"#", "p", "r", "o", "c", "i", "n", "s", "t">>,
      targetK |-> <<"#", "t", "a", "r", "g", "e", "t">>,
      instK |-> <<"#", "i", "n", "s", "t">>,
      attrPrefix |-> <<"-">>,
      lowerCase |-> FALSE,
      snakeCaseKeys |-> FALSE,
      includeTagSeqNum |-> FALSE,
      handleXMPPStreamTag |-> FALSE,
      decodeSimpleValuesAsMap |-> FALSE,
      disableTrimWhiteSpace |-> FALSE,
      castNanInf |-> FALSE,
      castToInt |-> FALSE,
      castToFloat |-> TRUE,
      castToBool |-> TRUE,
      checkTagToSkip |-> {},
      xmlEscapeChars |-> FALSE,
      xmlEscapeCharsDecoder |-> FALSE,
      useGoXmlEmptyElemSyntax |-> FALSE,
      xmlCheckIsValid |-> FALSE,
      rangeOrder |-> "asc" ]

textK == g.textK
attrPrefix == g.attrPrefix
lenAttrPrefix == Len(g.attrPrefix)

\* "\b" is not a character of an XML document and is left out.
trimRunes ==
    IF g.disableTrimWhiteSpace THEN {"\t", "\r", "\n"}
    ELSE {"\t", "\r", "\n", " "}

----------------------------------------------------------------------------
(* escapeChars, declared outside xml.go: each of & < > " ' becomes its     *)
(* entity, the ampersand first.                                            *)

EscapeChar(c) ==
    CASE c = "&" -> <<"&", "a", "m", "p", ";">>
      [] c = "<" -> <<"&", "l", "t", ";">>
      [] c = ">" -> <<"&", "g", "t", ";">>
      [] c = "\"" -> <<"&", "q", "u", "o", "t", ";">>
      [] c = "'" -> <<"&", "a", "p", "o", "s", ";">>
      [] OTHER -> <<c>>

\* the substitutions with the ampersand last: it is replaced also in the
\* entities the others have written
escapeCharsAmpLast(s) ==
    LET once == Flatten([i \in 1..Len(s) |->
                    IF s[i] = "&" THEN <<"&">> ELSE EscapeChar(s[i])])
    IN  Flatten([i \in 1..Len(once) |->
            IF once[i] = "&" THEN EscapeChar("&") ELSE <<once[i]>>])

escapeChars(s) == Flatten([i \in 1..Len(s) |-> EscapeChar(s[i])])

----------------------------------------------------------------------------
(* cast *)

Digits == {Ascii[i] : i \in Ord("0")..Ord("9")}

IsDigits(s) == Len(s) > 0 /\ \A i \in 1..Len(s) : s[i] \in Digits

\* the decimal text without its leading zeros
Canon(s) ==
    LET nz == {i \in 1..Len(s) : s[i] # "0"}
    IN  IF nz = {} THEN <<"0">> ELSE SubSeq(s, MinOf(nz), Len(s))

\* a leading sign and what follows it
Signed(s) ==
    IF s # <<>> /\ s[1] \in {"+", "-"}
    THEN [neg |-> s[1] = "-", body |-> Tail(s)]
    ELSE [neg |-> FALSE, body |-> s]

\* a <= b, for decimal texts without leading zeros
DecLE(a, b) == Len(a) < Len(b) \/ (Len(a) = Len(b) /\ StrLE(a, b))

MaxInt64 == <<"9", "2", "2", "3", "3", "7", "2", "0", "3", "6", "8", "5", "4", "7", "7", "5", "8", "0", "7">>
MinInt64 == <<"9", "2", "2", "3", "3", "7", "2", "0", "3", "6", "8", "5", "4", "7", "7", "5", "8", "0", "8">>
MaxUint64 == <<"1", "8", "4", "4", "6", "7", "4", "4", "0", "7", "3", "7", "0", "9", "5", "5", "1", "6", "1", "5">>

\* strconv.ParseInt(s, 10, 64): a sign, decimal digits, in the range of int64
ParseIntOk(s) ==
    LET x == Signed(s)
    IN  /\ IsDigits(x.body)
        /\ DecLE(Canon(x.body), IF x.neg THEN MinInt64 ELSE MaxInt64)

\* strconv.ParseUint(s, 10, 64): no sign
ParseUintOk(s) == IsDigits(s) /\ DecLE(Canon(s), MaxUint64)

\* strconv.ParseFloat(s, 64), on decimal texts with exponents of at most two
\* digits (no overflow) and the names of the infinities and of NaN; the
\* hexadecimal form and the underscore are not in the model's inputs
ParseFloatOk(s) ==
    LET x == Signed(s).body
        es == {i \in 1..Len(x) : x[i] \in {"e", "E"}}
        mant == IF es = {} THEN x ELSE SubSeq(x, 1, MinOf(es) - 1)
        exp == IF es = {} THEN <<"0">>
               ELSE Signed(SubSeq(x, MinOf(es) + 1, Len(x))).body
    IN  \/ ToLower(x) \in { <<"i", "n", "f">>,
                           <<"i", "n", "f", "i", "n", "i", "t", "y">> }
        \/ ToLower(s) = <<"n", "a", "n">>
        \/ /\ \A i \in 1..Len(mant) : mant[i] \in Digits \cup {"."}
           /\ Cardinality({i \in 1..Len(mant) : mant[i] = "."}) <= 1
           /\ \E i \in 1..Len(mant) : mant[i] \in Digits
           /\ IsDigits(exp) /\ Len(exp) <= 2

\* strconv.ParseBool
ParseBoolOk(s) ==
    s \in { <<"1">>, <<"t">>, <<"T">>, <<"T", "R", "U", "E">>,
            <<"t", "r", "u", "e">>, <<"T", "r", "u", "e">>,
            <<"0">>, <<"f">>, <<"F">>, <<"F", "A", "L", "S", "E">>,
            <<"f", "a", "l", "s", "e">>, <<"F", "a", "l", "s", "e">> }

ParseBoolText(s) ==
    IF s[1] \in {"0", "f", "F"} THEN <<"f", "a", "l", "s", "e">>
    ELSE <<"t", "r", "u", "e">>

\* the integer parsed, as %d prints it
IntText(s) ==
    LET c == Canon(Signed(s).body)
    IN  IF Signed(s).neg /\ c # <<"0">> THEN <<"-">> \o c ELSE c

\* the float64 parsed: as an integer where the text is one, and else named
\* by its text in lower case without a plus sign
FloatText(s) ==
    IF IsDigits(Signed(s).body) THEN IntText(s)
    ELSE IF s[1] = "+" THEN ToLower(Tail(s)) ELSE ToLower(s)

NanInf == { <<"n", "a", "n">>, <<"i", "n", "f">>, <<"-", "i", "n", "f">> }

\* a cast that asks ParseBool before the numbers
castBoolFirst(s, r, t) ==
    IF t # <<>> /\ t \in g.checkTagToSkip THEN Str(s)
    ELSE IF ~r THEN Str(s)
    ELSE IF g.castToBool /\ ParseBoolOk(s)
         THEN [k |-> "bool", v |-> ParseBoolText(s)]
    ELSE IF g.castToFloat /\ ParseFloatOk(s)
         THEN [k |-> "float64", v |-> FloatText(s)]
    ELSE Str(s)

\* checkTagToSkip is the set of the keys the registered function returns true
\* for: empty when none is registered
cast(s, r, t) ==
    IF t # <<>> /\ t \in g.checkTagToSkip THEN Str(s)
    ELSE IF ~r THEN Str(s)
    ELSE IF ~g.castNanInf /\ ToLower(s) \in NanInf THEN Str(s)
    ELSE IF g.castToInt /\ ParseIntOk(s) THEN [k |-> "int64", v |-> IntText(s)]
    ELSE IF g.castToInt /\ ParseUintOk(s) THEN [k |-> "uint64", v |-> Canon(s)]
    ELSE IF g.castToFloat /\ ParseFloatOk(s)
         THEN [k |-> "float64", v |-> FloatText(s)]
    ELSE IF /\ g.castToBool
            /\ Len(s) > 0 /\ Len(s) < 6
            /\ s[1] \in {"t", "T", "f", "F"}
            /\ ParseBoolOk(s)
         THEN [k |-> "bool", v |-> ParseBoolText(s)]
    ELSE Str(s)

----------------------------------------------------------------------------
(* The tokens of xml.Decoder.Token, which xml.go does not implement.       *)

StartElement(name, attr) == [t |-> "StartElement", name |-> name, attr |-> attr]
EndElement == [t |-> "EndElement"]
CharData(s) == [t |-> "CharData", s |-> s]
Comment == [t |-> "Comment"]
TokenErr(e) == [t |-> "error", e |-> e]      \* e: "EOF" or "syntax"

Attr(name, value) == [name |-> name, value |-> value]

----------------------------------------------------------------------------
(* xmlToMapParser.  One frame per call: skey, the maps n and na (alloc     *)
(* tells whether they were made: they are nil in the call with skey ""),   *)
(* and seq.  The rest of a frame is history: kids, the key:value pairs the *)
(* frame took from its child calls, in order; nattr, the number of xml.Attr *)
(* it was called with; texts, the values of its non-empty xml.CharData.    *)

NormKey(skey) ==
    LET s1 == IF g.lowerCase THEN ToLower(skey) ELSE skey
    IN  IF g.snakeCaseKeys THEN SnakeCase(s1) ELSE s1

AttrKey(local) ==
    LET l1 == IF g.snakeCaseKeys THEN SnakeCase(local) ELSE local
        k1 == attrPrefix \o l1
    IN  IF g.lowerCase THEN ToLower(k1) ELSE k1

RECURSIVE LoadAttrs(_, _, _)
LoadAttrs(na, a, r) ==
    IF a = <<>> THEN na
    ELSE LET key == AttrKey(Head(a).name)
             val == IF g.xmlEscapeCharsDecoder
                    THEN escapeChars(Head(a).value) ELSE Head(a).value
         IN  LoadAttrs(Put(na, key, cast(val, r, key)), Tail(a), r)

TopFrame ==
    [skey |-> <<>>, alloc |-> FALSE, n |-> EmptyMap, na |-> EmptyMap,
     seq |-> 0, kids |-> <<>>, nattr |-> 0, texts |-> {}]

\* the call's first lines: normalise skey, make the maps, load the attributes
Enter(name, a, r) ==
    LET skey == NormKey(name)
    IN  IF skey = <<>> THEN TopFrame
        ELSE [skey |-> skey, alloc |-> TRUE, n |-> EmptyMap,
              na |-> LoadAttrs(EmptyMap, a, r), seq |-> 0, kids |-> <<>>,
              nattr |-> Len(a), texts |-> {}]

IsXMPPStream(f) ==
    g.handleXMPPStreamTag /\ f.skey = <<"s", "t", "r", "e", "a", "m">>

\* the singleton's key and value: for key, val = range nn { break }
OnlyKey(nn) == CHOOSE x \in DOMAIN nn : TRUE

\* includeTagSeqNum: the "_seq" augmentation of a child's value
SeqKey == <<"_", "s", "e", "q">>

IntV(i) == [k |-> "int", v |-> Itoa(i)]

Augment(val, seq) ==
    IF ~g.includeTagSeqNum \/ val.k = "[]interface{}" THEN val
    ELSE IF val.k = "map" THEN MapV(Put(val.v, SeqKey, IntV(seq)))
    ELSE MapV(Put(Put(EmptyMap, textK, val), SeqKey, IntV(seq)))

AugmentedSeq(val, seq) ==
    IF ~g.includeTagSeqNum \/ val.k = "[]interface{}" THEN seq ELSE seq + 1

\* "See if 'key' already exists": a second value makes the entry a list
PromoteOverwrites(na, key, val) == Put(na, key, val)

Promote(na, key, val) ==
    IF key \in DOMAIN na
    THEN LET v == na[key]
             a == IF v.k = "[]interface{}" THEN v.v ELSE <<v>>
         IN  Put(na, key, Slice(Append(a, val)))
    ELSE Put(na, key, val)

\* case xml.StartElement, after the child call returned nn
Merge(f, nn) ==
    LET key == OnlyKey(nn)
        val == Augment(nn[key], f.seq)
    IN  [f EXCEPT !.seq = AugmentedSeq(nn[key], f.seq),
                  !.na = Promote(f.na, key, val),
                  !.kids = Append(f.kids, [key |-> key, val |-> val])]

\* case xml.EndElement
FinalizeDropsText(f) ==
    IF MapLen(f.na) > 0 THEN Put(f.n, f.skey, MapV(f.na))
    ELSE IF MapLen(f.n) = 0 THEN Put(f.n, f.skey, Str(<<>>))
    ELSE f.n

Finalize(f) ==
    IF MapLen(f.n) = 0
    THEN IF MapLen(f.na) > 0 THEN Put(f.n, f.skey, MapV(f.na))
         ELSE Put(f.n, f.skey, Str(<<>>))
    ELSE IF MapLen(f.n) = 1 /\ MapLen(f.na) > 0
    THEN Put(f.n, f.skey, MapV(Put(f.na, textK, f.n[OnlyKey(f.n)])))
    ELSE f.n

\* case xml.CharData; "panic" is the assignment to an entry of the nil map
CharDataStep(f, s, r) ==
    LET t0 == Trim(s, trimRunes)
        tt == IF g.xmlEscapeCharsDecoder THEN escapeChars(t0) ELSE t0
    IN  IF Len(tt) = 0 THEN [f |-> f, panic |-> FALSE]
        ELSE IF MapLen(f.na) > 0 \/ g.decodeSimpleValuesAsMap
        THEN IF f.alloc
             THEN [f |-> [f EXCEPT !.na = Put(f.na, textK, cast(tt, r, textK)),
                                   !.texts = @ \cup {cast(tt, r, textK)}],
                   panic |-> FALSE]
             ELSE [f |-> f, panic |-> TRUE]
        ELSE IF f.skey # <<>>
        THEN [f |-> [f EXCEPT !.n = Put(f.n, f.skey, cast(tt, r, f.skey)),
                              !.texts = @ \cup {cast(tt, r, f.skey)}],
              panic |-> FALSE]
        ELSE [f |-> f, panic |-> FALSE]

\* the decoder between two tokens
\* (last is history: the frame of the call that returned last, and what
\* it returned)
Running(stack, r) ==
    [stack |-> stack, r |-> r, done |-> FALSE, err |-> "none", ret |-> EmptyMap,
     last |-> [f |-> TopFrame, nn |-> EmptyMap]]

Returned(d, nn) == [d EXCEPT !.stack = <<>>, !.done = TRUE, !.ret = nn]

\* a failure that hands back what the innermost call had built
FailedWithTree(d, e) ==
    [d EXCEPT !.stack = <<>>, !.done = TRUE, !.err = e,
              !.ret = Put(d.stack[Len(d.stack)].na, <<"a">>, Str(<<>>))]

\* return nil, err: from the call that got the error, and from each call
\* above it in turn
Failed(d, e) == [d EXCEPT !.stack = <<>>, !.done = TRUE, !.err = e]

NewParser(r) == Running(<<TopFrame>>, r)

\* a call returns nn, nil: to the caller of NewMapXml when the call below it
\* is the one with skey "" (it returns what its child returned), and else
\* to its parent's StartElement case
Deliver(d, below, nn) ==
    LET parent == below[Len(below)]
    IN  IF parent.skey = <<>> THEN Returned(d, nn)
        ELSE [d EXCEPT !.stack =
                 SubSeq(below, 1, Len(below) - 1) \o <<Merge(parent, nn)>>]

\* one turn of the for loop of the innermost call, on token tok
ParserStep(d, tok) ==
    LET f == d.stack[Len(d.stack)]
        below == SubSeq(d.stack, 1, Len(d.stack) - 1)
    IN  CASE tok.t = "error" ->
               Failed(d, IF tok.e = "EOF" THEN "EOF" ELSE "decode")
          [] tok.t = "StartElement" ->
               LET c == Enter(tok.name, tok.attr, d.r)
               IN  IF IsXMPPStream(c)
                   THEN Deliver([d EXCEPT !.last =
                                     [f |-> c, nn |-> Put(c.n, c.skey, MapV(c.na))]],
                                d.stack, Put(c.n, c.skey, MapV(c.na)))
                   ELSE [d EXCEPT !.stack = Append(d.stack, c)]
          [] tok.t = "EndElement" ->
               IF ~f.alloc THEN Failed(d, "panic")
               ELSE Deliver([d EXCEPT !.last = [f |-> f, nn |-> Finalize(f)]],
                            below, Finalize(f))
          [] tok.t = "CharData" ->
               LET c == CharDataStep(f, tok.s, d.r)
               IN  IF c.panic THEN Failed(d, "panic")
                   ELSE [d EXCEPT !.stack = Append(below, c.f)]
          [] OTHER -> d

\* xmlToMap: the parser run over the tokens of a whole document
RECURSIVE RunParser(_, _)
RunParser(d, toks) ==
    IF d.done \/ toks = <<>> THEN d
    ELSE RunParser(ParserStep(d, Head(toks)), Tail(toks))


----------------------------------------------------------------------------
(* The encoder's helpers. *)

NoErr == [kind |-> "none", key |-> <<>>]
AttrErr(key) == [kind |-> "attr", key |-> key]     \* invalid attribute value for: key
MarshalErr == [kind |-> "xml.Marshal", key |-> <<>>]
SyntaxErr == [kind |-> "syntax", key |-> <<>>]

Ret(b, err) == [b |-> b, err |-> err]

RECURSIVE SortedKeys(_)
SortedKeys(S) ==
    IF S = {} THEN <<>>
    ELSE LET m == CHOOSE x \in S : \A y \in S : StrLE(x, y)
         IN  <<m>> \o SortedKeys(S \ {m})

Reverse(q) == [i \in 1..Len(q) |-> q[Len(q) + 1 - i]]

\* for k, v := range vv: the order is the runtime's; the model has three
Range(vv) ==
    LET asc == SortedKeys(DOMAIN vv)
    IN  CASE g.rangeOrder = "asc" -> asc
          [] g.rangeOrder = "desc" -> Reverse(asc)
          [] OTHER -> IF asc = <<>> THEN asc ELSE Tail(asc) \o <<Head(asc)>>

\* attrList.Less and elemList.Less: a[i][0] <= a[j][0]
attrList_Less(a, i, j) == StrLE(a[i][1], a[j][1])
elemList_Less(e, i, j) == StrLE(e[i][1], e[j][1])

Swap(a, i, j) == [a EXCEPT ![i] = a[j], ![j] = a[i]]

\* sort.Sort on fewer than twelve entries is an insertion sort with Less
RECURSIVE attrSink(_, _)
attrSink(a, j) ==
    IF j > 1 /\ attrList_Less(a, j, j - 1)
    THEN attrSink(Swap(a, j, j - 1), j - 1) ELSE a

RECURSIVE attrSortFrom(_, _)
attrSortFrom(a, i) ==
    IF i > Len(a) THEN a ELSE attrSortFrom(attrSink(a, i), i + 1)

attrUnsorted(a) == a

attrSort(a) == attrSortFrom(a, 2)

RECURSIVE elemSink(_, _)
elemSink(e, j) ==
    IF j > 1 /\ elemList_Less(e, j, j - 1)
    THEN elemSink(Swap(e, j, j - 1), j - 1) ELSE e

RECURSIVE elemSortFrom(_, _)
elemSortFrom(e, i) ==
    IF i > Len(e) THEN e ELSE elemSortFrom(elemSink(e, i), i + 1)

elemSort(e) == elemSortFrom(e, 2)

\* the types that print with %v as they are
NumericKinds ==
    {"float64", "bool", "int", "int32", "int64", "float32", "json.Number"}

RECURSIVE Join(_, _)
Join(ss, sep) ==
    IF ss = <<>> THEN <<>>
    ELSE IF Len(ss) = 1 THEN ss[1]
    ELSE ss[1] \o sep \o Join(Tail(ss), sep)

\* fmt.Sprintf("%v", v)
RECURSIVE Sprint(_)
Sprint(v) ==
    CASE v.k = "nil" -> <<"<", "n", "i", "l", ">">>
      [] v.k = "map" ->
           LET ks == SortedKeys(DOMAIN v.v)
           IN  <<"m", "a", "p", "[">>
               \o Join([i \in 1..Len(ks) |-> ks[i] \o <<":">> \o Sprint(v.v[ks[i]])],
                       <<" ">>)
               \o <<"]">>
      [] v.k \in {"[]interface{}", "[]map"} ->
           <<"[">> \o Join([i \in 1..Len(v.v) |-> Sprint(v.v[i])], <<" ">>) \o <<"]">>
      [] v.k = "[]string" ->
           <<"[">> \o Join(v.v, <<" ">>) \o <<"]">>
      [] v.k = "struct" -> <<"{", "}">>
      [] OTHER -> v.v

EscapedTwice(s) ==
    IF g.xmlEscapeChars THEN escapeChars(escapeChars(s)) ELSE s

Escaped(s) == IF g.xmlEscapeChars THEN escapeChars(s) ELSE s

\* xml.Marshal of a struct value: the model's struct has no field and says
\* in v whether encoding/xml can marshal it
StructXml == <<"<", "T", ">", "<", "/", "T", ">">>

\* the first type switch: nil becomes "", a struct its xml.Marshal text (or
\* the call returns its error), any other unlisted type its fmt.Sprint text
Coerce(value) ==
    CASE value.k = "map[K]V" -> [err |-> FALSE, value |-> MapV(value.v)]
      [] value.k = "nil" -> [err |-> FALSE, value |-> Str(<<>>)]
      [] value.k = "struct" ->
           IF value.v THEN [err |-> FALSE, value |-> Str(StructXml)]
           ELSE [err |-> TRUE, value |-> value]
      [] value.k \in {"uint64"} -> [err |-> FALSE, value |-> Str(Sprint(value))]
      [] OTHER -> [err |-> FALSE, value |-> value]

\* the pretty struct
Pretty(indent, padding) ==
    [indent |-> indent, cnt |-> 0, padding |-> padding, mapDepth |-> 0, start |-> 0]

Indent(p) == [p EXCEPT !.padding = p.padding \o p.indent, !.cnt = p.cnt + 1]

Outdent(p) ==
    IF p.cnt > 0
    THEN [p EXCEPT !.padding = SubSeq(p.padding, 1, Len(p.padding) - Len(p.indent)),
                   !.cnt = p.cnt - 1]
    ELSE p

IsAttrKey(k) ==
    lenAttrPrefix > 0 /\ lenAttrPrefix < Len(k)
    /\ SubSeq(k, 1, lenAttrPrefix) = attrPrefix

AttrValueKinds == {"string", "[]byte"} \cup NumericKinds

\* the value of an attribute as it is written
AttrText(v) == IF v.k \in {"string", "[]byte"} THEN Escaped(v.v) ELSE v.v

\* the text written for vv[textK]
TextOf(v) == IF v.k \in {"string", "[]byte"} THEN Escaped(v.v) ELSE Sprint(v)

EndTagText(key) == <<"<", "/">> \o key \o <<">">>

\* the lines after the type switch: the end tag, the newline
EndOfElement(doIndent, key, p, endTag, isSimple, elen) ==
    (IF endTag
     THEN (IF doIndent /\ ~isSimple THEN p.padding ELSE <<>>)
          \o (IF elen > 0 \/ g.useGoXmlEmptyElemSyntax
              THEN (IF elen = 0 THEN <<">">> ELSE <<>>) \o EndTagText(key)
              ELSE <<"/", ">">>)
     ELSE <<>>)
    \o (IF doIndent /\ p.cnt > p.start THEN <<"\n">> ELSE <<>>)


----------------------------------------------------------------------------
(* marshalMapToXmlIndent: what the call appends to the buffer, and its      *)
(* error.  The bytes written before an error stay in the buffer.           *)

\* the attribute scan of the map case, in range order: the pairs, or the
\* first key whose value has no attribute type
RECURSIVE ScanAttrs(_, _, _)
ScanAttrs(vv, ks, acc) ==
    IF ks = <<>> THEN [list |-> acc, err |-> NoErr]
    ELSE LET k == Head(ks)
         IN  IF ~IsAttrKey(k) THEN ScanAttrs(vv, Tail(ks), acc)
             ELSE IF vv[k].k \in AttrValueKinds
             THEN ScanAttrs(vv, Tail(ks),
                      Append(acc, <<SubSeq(k, lenAttrPrefix + 1, Len(k)), AttrText(vv[k])>>))
             ELSE [list |-> acc, err |-> AttrErr(k)]

\* ` name="value"` for each pair
RECURSIVE WriteAttrs(_)
WriteAttrs(a) ==
    IF a = <<>> THEN <<>>
    ELSE <<" ">> \o Head(a)[1] \o <<"=", "\"">> \o Head(a)[2] \o <<"\"">>
         \o WriteAttrs(Tail(a))

\* the keys that are neither the text key nor attributes, in range order
ElemPairs(vv) ==
    LET ks == SelectSeq(Range(vv), LAMBDA k : k # textK /\ ~IsAttrKey(k))
    IN  [i \in 1..Len(ks) |-> <<ks[i], vv[ks[i]]>>]

RECURSIVE marshalMapToXmlIndent(_, _, _, _)
RECURSIVE MarshalElems(_, _, _)
RECURSIVE MarshalList(_, _, _, _)

\* the loop over the sorted elemlist
MarshalElems(doIndent, elems, p) ==
    IF elems = <<>> THEN Ret(<<>>, NoErr)
    ELSE LET v == Head(elems)
             isList == v[2].k = "[]interface{}"
             p1 == IF ~isList /\ doIndent THEN Indent(p) ELSE p
             one == marshalMapToXmlIndent(doIndent, v[1], v[2], p1)
         IN  IF one.err # NoErr THEN one
             ELSE LET rest == MarshalElems(doIndent, Tail(elems), p)
                  IN  Ret(one.b \o rest.b, rest.err)

\* the loop over the members of a []interface{} or a []string
MarshalList(doIndent, key, members, p) ==
    IF members = <<>> THEN Ret(<<>>, NoErr)
    ELSE LET p1 == IF doIndent THEN Indent(p) ELSE p
             one == marshalMapToXmlIndent(doIndent, key, Head(members), p1)
         IN  IF one.err # NoErr THEN one
             ELSE LET rest == MarshalList(doIndent, key, Tail(members), p)
                  IN  Ret(one.b \o rest.b, rest.err)

marshalMapToXmlIndent(doIndent, key, value0, pp) ==
    LET p == pp
        co == Coerce(value0)
        value == co.value
        listKinds == {"[]interface{}", "[]string"}
        head == (IF doIndent /\ value.k \notin listKinds THEN p.padding ELSE <<>>)
                \o (IF value.k # "[]interface{}" THEN <<"<">> \o key ELSE <<>>)
        end(endTag, isSimple, elen) ==
            EndOfElement(doIndent, key, p, endTag, isSimple, elen)
    IN  IF co.err THEN Ret(<<>>, MarshalErr)
        ELSE CASE value.k = "map" ->
            LET vv == value.v
                lenvv == MapLen(vv)
                scan == ScanAttrs(vv, Range(vv), <<>>)
                n == Len(scan.list)
                attrs == WriteAttrs(attrSort(scan.list))
                hasText == textK \in DOMAIN vv
            IN  IF scan.err # NoErr THEN Ret(head, scan.err)
                ELSE IF n = lenvv
                THEN Ret(head \o attrs
                         \o (IF g.useGoXmlEmptyElemSyntax
                             THEN EndTagText(key) ELSE <<"/", ">">>)
                         \o end(FALSE, FALSE, 0), NoErr)
                ELSE IF hasText /\ n + 1 = lenvv
                THEN Ret(head \o attrs \o <<">">> \o TextOf(vv[textK])
                         \o end(TRUE, TRUE, 1), NoErr)
                ELSE LET open1 == (IF hasText
                                   THEN <<">">> \o TextOf(vv[textK]) ELSE <<">">>)
                                  \o (IF doIndent THEN <<"\n">> ELSE <<>>)
                         kids == MarshalElems(doIndent, elemSort(ElemPairs(vv)),
                                     [p EXCEPT !.mapDepth = p.mapDepth + 1])
                     IN  IF kids.err # NoErr
                         THEN Ret(head \o attrs \o open1 \o kids.b, kids.err)
                         ELSE Ret(head \o attrs \o open1 \o kids.b
                                  \o end(TRUE, FALSE, 1), NoErr)
          [] value.k \in listKinds ->
            IF Len(value.v) = 0
            THEN Ret(head \o (IF doIndent THEN p.padding \o p.indent ELSE <<>>)
                     \o <<"<">> \o key \o end(TRUE, FALSE, 0), NoErr)
            ELSE LET members == IF value.k = "[]string"
                                THEN [i \in 1..Len(value.v) |-> Str(value.v[i])]
                                ELSE value.v
                     l == MarshalList(doIndent, key, members, p)
                 IN  Ret(head \o l.b, l.err)
          [] value.k \in {"string", "[]byte"} ->
            LET v == Escaped(value.v)
            IN  Ret(head \o (IF Len(v) > 0 THEN <<">">> \o v ELSE <<>>)
                    \o end(TRUE, TRUE, Len(v)), NoErr)
          [] value.k \in NumericKinds ->
            Ret(head \o <<">">> \o value.v \o end(TRUE, TRUE, Len(value.v)), NoErr)
          [] OTHER ->
            \* "[]map": a listed slice type with no case of its own goes to
            \* xml.Marshal, which writes nothing for no member and fails on a map
            Ret(head \o <<">">>
                \o (IF Len(value.v) = 0 THEN <<>>
                    ELSE <<">", "U", "N", "K", "N", "O", "W", "N">>)
                \o end(TRUE, TRUE, 0), NoErr)


----------------------------------------------------------------------------
(* xml.Decoder.Token of encoding/xml, as far as the encoder's output needs  *)
(* it: start tags with double-quoted attributes, end tags, empty-element    *)
(* tags, character data with the five predefined entities.  A tag that is  *)
(* not closed, an end tag that does not match, a bare & or a < inside a    *)
(* value, and the end of the input inside an open element are errors.      *)

LowerLetters == {Ascii[i] : i \in Ord("a")..Ord("z")}
UpperLetters == {Ascii[i] : i \in Ord("A")..Ord("Z")}
NameStart == LowerLetters \cup UpperLetters \cup {"_"}
NameChars == NameStart \cup Digits \cup {"-"}
Spaces == {" ", "\t", "\n", "\r"}

NameEnd(b, i) == MinOf({j \in i..Len(b) : b[j] \notin NameChars} \cup {Len(b) + 1})
SkipSpace(b, i) == MinOf({j \in i..Len(b) : b[j] \notin Spaces} \cup {Len(b) + 1})
Find(b, i, c) == MinOf({j \in i..Len(b) : b[j] = c} \cup {Len(b) + 1})

IsName(nm) == nm # <<>> /\ nm[1] \in NameStart

Entity(nm) ==
    CASE nm = <<"a", "m", "p">> -> "&"
      [] nm = <<"l", "t">> -> "<"
      [] nm = <<"g", "t">> -> ">"
      [] nm = <<"q", "u", "o", "t">> -> "\""
      [] nm = <<"a", "p", "o", "s">> -> "'"
      [] OTHER -> ""

\* the text of character data or of an attribute value: entities resolved,
\* and a carriage return of the input read as a newline (\r\n as one)
RECURSIVE Unescape(_, _, _)
Unescape(raw, i, acc) ==
    IF i > Len(raw) THEN [ok |-> TRUE, s |-> acc]
    ELSE IF raw[i] = "<" THEN [ok |-> FALSE, s |-> acc]
    ELSE IF raw[i] = "\r"
    THEN IF i < Len(raw) /\ raw[i + 1] = "\n" THEN Unescape(raw, i + 1, acc)
         ELSE Unescape(raw, i + 1, Append(acc, "\n"))
    ELSE IF raw[i] = "&"
    THEN LET e == Find(raw, i + 1, ";")
             c == Entity(SubSeq(raw, i + 1, e - 1))
         IN  IF e > Len(raw) \/ c = "" THEN [ok |-> FALSE, s |-> acc]
             ELSE Unescape(raw, e + 1, Append(acc, c))
    ELSE Unescape(raw, i + 1, Append(acc, raw[i]))

BadTag == [ok |-> FALSE, attr |-> <<>>, next |-> 0, empty |-> FALSE]

\* the attributes of a start tag, from position i to its > or />
RECURSIVE ScanTag(_, _, _)
ScanTag(b, i, acc) ==
    LET k == SkipSpace(b, i)
    IN  IF k > Len(b) THEN BadTag
        ELSE IF b[k] = ">"
        THEN [ok |-> TRUE, attr |-> acc, next |-> k + 1, empty |-> FALSE]
        ELSE IF b[k] = "/"
        THEN IF k + 1 <= Len(b) /\ b[k + 1] = ">"
             THEN [ok |-> TRUE, attr |-> acc, next |-> k + 2, empty |-> TRUE]
             ELSE BadTag
        ELSE LET j == NameEnd(b, k)
                 nm == SubSeq(b, k, j - 1)
                 e == SkipSpace(b, j)
                 q == SkipSpace(b, e + 1)
                 c == Find(b, q + 1, "\"")
                 un == Unescape(SubSeq(b, q + 1, c - 1), 1, <<>>)
             IN  IF \/ ~IsName(nm)
                    \/ e > Len(b) \/ b[e] # "="
                    \/ q > Len(b) \/ b[q] # "\""
                    \/ c > Len(b) \/ ~un.ok
                 THEN BadTag
                 ELSE ScanTag(b, c + 1, Append(acc, Attr(nm, un.s)))

\* the tokens Token returns for the bytes b from position i on, and the
\* error that ends them: "EOF" at the clean end of the input, else "syntax"
RECURSIVE Scan(_, _, _, _)
Scan(b, i, stk, acc) ==
    LET bad == [toks |-> acc, err |-> "syntax"]
    IN  IF i > Len(b)
        THEN IF stk # <<>> THEN bad ELSE [toks |-> acc, err |-> "EOF"]
        ELSE IF b[i] # "<"
        THEN LET j == Find(b, i, "<")
                 un == Unescape(SubSeq(b, i, j - 1), 1, <<>>)
             IN  IF ~un.ok THEN bad
                 ELSE Scan(b, j, stk, Append(acc, CharData(un.s)))
        ELSE IF i + 1 <= Len(b) /\ b[i + 1] = "/"
        THEN LET j == NameEnd(b, i + 2)
                 nm == SubSeq(b, i + 2, j - 1)
                 k == SkipSpace(b, j)
             IN  IF \/ ~IsName(nm) \/ k > Len(b) \/ b[k] # ">"
                    \/ stk = <<>> \/ stk[Len(stk)] # nm
                 THEN bad
                 ELSE Scan(b, k + 1, SubSeq(stk, 1, Len(stk) - 1),
                           Append(acc, EndElement))
        ELSE LET j == NameEnd(b, i + 1)
                 nm == SubSeq(b, i + 1, j - 1)
                 tag == ScanTag(b, j, <<>>)
             IN  IF ~IsName(nm) \/ ~tag.ok THEN bad
                 ELSE IF tag.empty
                 THEN Scan(b, tag.next, stk,
                           acc \o <<StartElement(nm, tag.attr), EndElement>>)
                 ELSE Scan(b, tag.next, Append(stk, nm),
                           Append(acc, StartElement(nm, tag.attr)))

Tokens(b) == Scan(b, 1, <<>>, <<>>)

----------------------------------------------------------------------------
(* Map.Xml and Map.XmlIndent *)

\* if xmlCheckIsValid: Token until io.EOF (then err is nil) or an error
\* (then nil and that error are returned); else the bytes and err as they are
CheckIsValid(r) ==
    IF ~g.xmlCheckIsValid THEN r
    ELSE IF Tokens(r.b).err = "EOF" THEN Ret(r.b, NoErr)
    ELSE Ret(<<>>, SyntaxErr)

OnlyValue(m) == m[OnlyKey(m)]

\* Xml up to the label done: the root tag, and the emission.  rootTag is
\* the variadic argument: no tag, or one
XmlEmit(m, tags) ==
    LET p == Pretty(<<>>, <<>>)
        whole(tag) == [key |-> tag, value |-> MapV(m)]
        root == IF MapLen(m) = 1 /\ Len(tags) = 0
                THEN IF /\ OnlyValue(m).k = "[]interface{}"
                        /\ \E i \in 1..Len(OnlyValue(m).v) :
                               OnlyValue(m).v[i].k # "map"
                     THEN whole(DefaultRootTag)
                     ELSE [key |-> OnlyKey(m), value |-> OnlyValue(m)]
                ELSE IF Len(tags) = 1 THEN whole(tags[1])
                ELSE whole(DefaultRootTag)
    IN  marshalMapToXmlIndent(FALSE, root.key, root.value, p)

Xml(m, tags) == CheckIsValid(XmlEmit(m, tags))

\* XmlIndent up to the validity check
XmlIndentEmit(m, prefix, indent, tags) ==
    LET p == Pretty(indent, prefix)
        whole(tag) == [key |-> tag, value |-> MapV(m)]
        root == IF MapLen(m) = 1 /\ Len(tags) = 0
                THEN IF OnlyValue(m).k = "[]interface{}"
                     THEN whole(DefaultRootTag)
                     ELSE [key |-> OnlyKey(m), value |-> OnlyValue(m)]
                ELSE IF Len(tags) = 1 THEN whole(tags[1])
                ELSE whole(DefaultRootTag)
    IN  marshalMapToXmlIndent(TRUE, root.key, root.value, p)

XmlIndent(m, prefix, indent, tags) ==
    CheckIsValid(XmlIndentEmit(m, prefix, indent, tags))

\* a decode whose tokenizer reports io.EOF wherever the input ends
NewMapXmlAnyEOF(b, r) ==
    RunParser(NewParser(r), Append(Tokens(b).toks, TokenErr("EOF")))

\* NewMapXml(xmlVal, cast...): xmlToMap on the tokens of the bytes
NewMapXml(b, r) ==
    LET t == Tokens(b)
    IN  RunParser(NewParser(r), Append(t.toks, TokenErr(t.err)))


----------------------------------------------------------------------------
(* The documents the tokenizer delivers. *)

StartTags ==
    { StartElement(<<"a">>, <<>>),
      StartElement(<<"a">>, << Attr(<<"b">>, <<"<">>), Attr(<<"a">>, <<"1">>) >>),
      StartElement(<<"b">>, <<>>),
      StartElement(<<"b">>, << Attr(<<"a">>, <<"\r">>) >>) }

Texts == { <<" ", "x">>, <<" ">> }

----------------------------------------------------------------------------
(* Decoding: NewMapXml reads one document token by token; the caller then  *)
(* encodes the Map it got with Xml and decodes the bytes again.            *)

Idle == [b |-> <<>>, err |-> NoErr]

Init ==
    /\ \E wrap \in BOOLEAN :
         g = [Defaults EXCEPT !.decodeSimpleValuesAsMap = wrap]
    /\ dec = NewParser(FALSE)
    /\ open = 0
    /\ starts = 0
    /\ mv = EmptyMap
    /\ rootTag = <<>>
    /\ enc = Idle
    /\ redec = NewParser(FALSE)
    /\ calls = <<>>
    /\ pc = "decoding"

\* the parser takes the tokenizer's next token
Take(tok) ==
    /\ pc = "decoding"
    /\ dec' = ParserStep(dec, tok)
    /\ pc' = IF dec'.done THEN "decoded" ELSE "decoding"
    /\ mv' = IF dec'.done THEN dec'.ret ELSE mv
    /\ UNCHANGED <<g, rootTag, enc, redec, calls>>

TokStartElement ==
    /\ starts < MaxElems
    /\ \E tok \in StartTags : Take(tok)
    /\ open' = open + 1
    /\ starts' = starts + 1

TokEndElement ==
    /\ open > 0
    /\ Take(EndElement)
    /\ open' = open - 1
    /\ UNCHANGED starts

TokCharData ==
    /\ \E s \in Texts : Take(CharData(s))
    /\ UNCHANGED <<open, starts>>

TokComment ==
    /\ Take(Comment)
    /\ UNCHANGED <<open, starts>>

\* io.EOF comes only outside every element; inside one encoding/xml
\* reports the end of the input as a syntax error
TokError ==
    /\ \E e \in {"EOF", "syntax"} :
         /\ e = "EOF" => open = 0
         /\ Take(TokenErr(e))
    /\ UNCHANGED <<open, starts>>

\* XMLEscapeChars(true), declared outside xml.go, before the Map is encoded
XMLEscapeChars ==
    /\ pc = "decoded"
    /\ dec.err = "none"
    /\ ~g.xmlEscapeChars
    /\ g' = [g EXCEPT !.xmlEscapeChars = TRUE]
    /\ UNCHANGED <<dec, open, starts, mv, rootTag, enc, redec, calls, pc>>

\* the caller holds a Map: mv.Xml(rootTag...)
Called(fn, r) == [fn |-> fn, order |-> g.rangeOrder, b |-> r.b, err |-> r.err]

CallXml ==
    /\ pc \in {"decoded", "encoded"}
    /\ dec.err = "none"
    /\ Len(calls) < MaxCalls
    /\ enc' = Xml(mv, rootTag)
    /\ calls' = Append(calls, Called("Xml", enc'))
    /\ pc' = "encoded"
    /\ UNCHANGED <<g, dec, open, starts, mv, rootTag, redec>>

CallNewMapXml ==
    /\ pc = "encoded"
    /\ enc.err = NoErr
    /\ redec' = NewMapXml(enc.b, dec.r)
    /\ pc' = "redecoded"
    /\ UNCHANGED <<g, dec, open, starts, mv, rootTag, enc, calls>>

Next ==
    \/ TokStartElement
    \/ TokEndElement
    \/ TokCharData
    \/ TokComment
    \/ TokError
    \/ XMLEscapeChars
    \/ CallXml
    \/ CallNewMapXml

Spec == Init /\ [][Next]_vars

----------------------------------------------------------------------------
(* Encoding: the caller builds a Map, sets the encoder's policy, and calls *)
(* Xml and XmlIndent on it.                                                *)

KeyA == <<"-", "a">>
KeyB == <<"-", "b">>
KeyC == <<"c">>
KeyD == <<"d">>
KeyK == <<"k">>
KeyM == <<"m">>

X == Str(<<"x">>)
One == Str(<<"1">>)
Two == [k |-> "int", v |-> <<"2">>]
True == [k |-> "bool", v |-> <<"t", "r", "u", "e">>]
Uint64 == [k |-> "uint64", v |-> <<"7">>]
\* a struct encoding/xml marshals, and one it does not (a map field, say)
GoodStruct == [k |-> "struct", v |-> TRUE]
BadStruct == [k |-> "struct", v |-> FALSE]
\* a []map[string]interface{}
MapSlice == [k |-> "[]map", v |-> <<MapV(Put(EmptyMap, KeyC, X))>>]
StringSlice == [k |-> "[]string", v |-> <<<<"x">>, <<"x">>>>]

Map1(k1, v1) == Put(EmptyMap, k1, v1)
Map2(k1, v1, k2, v2) == Put(Map1(k1, v1), k2, v2)

AttrParts ==
    { EmptyMap, Map1(KeyA, One), Map2(KeyB, Two, KeyA, One), Map1(KeyA, True),
      Map1(KeyA, Uint64), Map1(KeyA, Nil), Map2(KeyA, Nil, KeyB, Nil) }

ChildParts ==
    { EmptyMap, Map1(KeyC, X), Map2(KeyD, X, KeyC, Str(<<>>)), Map1(textK, X),
      Map2(textK, X, KeyC, X), Map2(KeyC, BadStruct, KeyD, X),
      Map2(KeyC, MapSlice, KeyD, X), Map1(KeyC, Nil),
      Map1(KeyC, Slice(<<X, Str(<<>>)>>)),
      Map1(KeyC, MapV(Map1(KeyA, One))), Map1(KeyC, MapV(Map1(KeyA, Nil))) }

Objects == { MapV(a @@ c) : a \in AttrParts, c \in ChildParts }

SeqMembers == { X, MapV(Map1(KeyC, X)), MapV(Map1(KeyA, One)) }

Sequences ==
    { Slice(q) : q \in UNION { [1..n -> SeqMembers] : n \in 0..MaxSeqLen } }

Scalars == { X, Str(<<>>), Nil, True, GoodStruct, BadStruct }

RootValues == Objects \cup Sequences \cup Scalars \cup {MapSlice, StringSlice}

Maps ==
    { Map1(KeyK, v) : v \in RootValues }
    \cup { Map2(KeyK, v, KeyM, X) : v \in Sequences \cup Scalars }
    \cup { EmptyMap }

RootTags == { <<>>, << <<"r">> >> }

\* the arguments prefix and indent of XmlIndent
Prefix == <<>>
IndentUnit == <<" ", " ">>

InitEncode ==
    /\ g = Defaults
    /\ dec = NewParser(FALSE)
    /\ open = 0
    /\ starts = 0
    /\ mv \in Maps
    /\ rootTag \in RootTags
    /\ enc = Idle
    /\ redec = NewParser(FALSE)
    /\ calls = <<>>
    /\ pc = "decoded"

XmlGoEmptyElemSyntax ==
    /\ pc = "decoded"
    /\ ~g.useGoXmlEmptyElemSyntax
    /\ g' = [g EXCEPT !.useGoXmlEmptyElemSyntax = TRUE]
    /\ UNCHANGED <<dec, open, starts, mv, rootTag, enc, redec, calls, pc>>

\* XmlCheckIsValid(), with no argument: the switch is toggled
XmlCheckIsValid ==
    /\ pc = "decoded"
    /\ ~g.xmlCheckIsValid
    /\ g' = [g EXCEPT !.xmlCheckIsValid = ~g.xmlCheckIsValid]
    /\ UNCHANGED <<dec, open, starts, mv, rootTag, enc, redec, calls, pc>>

\* the runtime starts the next range over a map somewhere else
MapIterationOrder ==
    /\ \E o \in {"asc", "desc", "rot"} :
         /\ o # g.rangeOrder
         /\ g' = [g EXCEPT !.rangeOrder = o]
    /\ UNCHANGED <<dec, open, starts, mv, rootTag, enc, redec, calls, pc>>

CallXmlIndent ==
    /\ pc \in {"decoded", "encoded"}
    /\ dec.err = "none"
    /\ Len(calls) < MaxCalls
    /\ enc' = XmlIndent(mv, Prefix, IndentUnit, rootTag)
    /\ calls' = Append(calls, Called("XmlIndent", enc'))
    /\ pc' = "encoded"
    /\ UNCHANGED <<g, dec, open, starts, mv, rootTag, redec>>

NextEncode ==
    \/ XmlGoEmptyElemSyntax
    \/ XmlCheckIsValid
    \/ MapIterationOrder
    \/ CallXml
    \/ CallXmlIndent

SpecEncode == InitEncode /\ [][NextEncode]_vars

----------------------------------------------------------------------------
(* Sequence promotion. *)

Frames == { dec.stack[i] : i \in 1..Len(dec.stack) }

DefaultDecoding == ~g.decodeSimpleValuesAsMap

\* the values a call took under key, in the order its children returned them
ValsOf(kids, key) ==
    LET s == SelectSeq(kids, LAMBDA e : e.key = key)
    IN  [i \in 1..Len(s) |-> s[i].val]

IsPrefix(p, q) == Len(p) <= Len(q) /\ SubSeq(q, 1, Len(p)) = p

\* obj holds each key of kids as the claim says
Promoted(obj, kids) ==
    \A i \in 1..Len(kids) :
        LET key == kids[i].key
            vs  == ValsOf(kids, key)
        IN  /\ key \in DOMAIN obj
            /\ IF Len(vs) = 1
               THEN obj[key] = vs[1] /\ obj[key].k # "[]interface{}"
               ELSE obj[key] = Slice(vs)

PromotionInv ==
    DefaultDecoding =>
      /\ \A f \in Frames : f.alloc => Promoted(f.na, f.kids)
      /\ LET f == dec.last.f
         IN  f.kids # <<>> =>
               /\ dec.last.nn[f.skey].k = "map"
               /\ Promoted(dec.last.nn[f.skey].v, f.kids)

\* what one step does to the entries of the calls that stay on the stack
PromotionStep ==
    DefaultDecoding =>
      \A i \in 1..Len(dec.stack) :
          i <= Len(dec'.stack) =>
            \A key \in DOMAIN dec.stack[i].na :
                LET old == dec.stack[i].na[key]
                    new == dec'.stack[i].na[key]
                IN  /\ key \in DOMAIN dec'.stack[i].na
                    /\ old.k = "[]interface{}" =>
                          new.k = "[]interface{}" /\ IsPrefix(old.v, new.v)

\* C1: under the default policy, a key that occurs once among a parent's
\* children is held as the bare child value and a key that occurs k >= 2
\* times as the Sequence of its k values in document order, in the map the
\* parent's call is building and in the Object it returns; and an entry that
\* is a Sequence stays a Sequence that only grows by append while its call
\* runs.
C1_SequencePromotion == []PromotionInv /\ [][PromotionStep]_vars

\* a call holds a Sequence of three values: one promotion, then one append
C1_Witness ==
    /\ DefaultDecoding
    /\ \E f \in Frames : \E key \in DOMAIN f.na :
          f.na[key].k = "[]interface{}" /\ Len(f.na[key].v) = 3

----------------------------------------------------------------------------
(* Decode, encode, decode again. *)

MarkupChars == {"&", "<", "\""}

\* no string of v holds a character of cs
RECURSIVE Without(_, _)
Without(v, cs) ==
    CASE v.k = "string" -> \A i \in 1..Len(v.v) : v.v[i] \notin cs
      [] v.k = "map" -> \A key \in DOMAIN v.v : Without(v.v[key], cs)
      [] v.k = "[]interface{}" -> \A i \in 1..Len(v.v) : Without(v.v[i], cs)
      [] OTHER -> TRUE

NoMarkup(v) == Without(v, MarkupChars)

RoundTrip ==
    /\ pc \in {"encoded", "redecoded"} => enc.err = NoErr
    /\ pc = "redecoded" => redec.err = "none" /\ redec.ret = mv

C2_CarriageReturn ==
    /\ [g EXCEPT !.xmlEscapeChars = FALSE] = Defaults
    /\ g.xmlEscapeChars
    => RoundTrip

----------------------------------------------------------------------------
(* Where the decoder puts an element's text. *)

\* C6: the element whose call returned last: if it had non-empty character
\* data and an attribute or a child (or values are always wrapped), it is an
\* Object holding one of its texts under the text key; if it had text and
\* neither attribute nor child, it is the text itself; if it had none of the
\* three, it is the empty string.
C6_TextPlacement ==
    LET f == dec.last.f
        obj == dec.last.nn[f.skey]
        members == f.nattr > 0 \/ f.kids # <<>>
    IN  f.alloc =>
          /\ f.texts # {} /\ (members \/ g.decodeSimpleValuesAsMap) =>
                /\ obj.k = "map"
                /\ textK \in DOMAIN obj.v
                /\ obj.v[textK] \in f.texts
          /\ f.texts # {} /\ ~members /\ ~g.decodeSimpleValuesAsMap =>
                obj \in f.texts
          /\ f.texts = {} /\ ~members => obj = Str(<<>>)

\* an element returned whose text came before its first child: the fold
C6_Witness ==
    LET f == dec.last.f
    IN  /\ f.alloc /\ ~g.decodeSimpleValuesAsMap
        /\ f.nattr = 0 /\ f.kids # <<>> /\ MapLen(f.n) = 1
        /\ dec.last.nn[f.skey].v[textK] \in f.texts

----------------------------------------------------------------------------
(* What the encoder writes. *)

Call(i) == calls[i]

\* the element depth at which token i of toks stands
Depth(toks, i) ==
    Cardinality({j \in 1..(i - 1) : toks[j].t = "StartElement"})
    - Cardinality({j \in 1..(i - 1) : toks[j].t = "EndElement"})

\* b is one document: it tokenizes to the end (every tag is closed and every
\* element ended by its own end tag), and has one root element and no text
\* outside it
WellFormed(b) ==
    LET t == Tokens(b)
        toks == t.toks
    IN  /\ t.err = "EOF"
        /\ Cardinality({i \in DOMAIN toks :
               toks[i].t = "StartElement" /\ Depth(toks, i) = 0}) = 1
        /\ \A i \in DOMAIN toks :
               toks[i].t = "CharData" /\ Depth(toks, i) = 0 =>
                   \A j \in DOMAIN toks[i].s : toks[i].s[j] \in Spaces

RECURSIVE Generic(_)
Generic(v) ==
    CASE v.k \in {"string", "nil", "bool", "int", "float64"} -> TRUE
      [] v.k = "map" -> \A key \in DOMAIN v.v : Generic(v.v[key])
      [] v.k = "[]interface{}" -> \A i \in DOMAIN v.v : Generic(v.v[i])
      [] OTHER -> FALSE

\* C3: when the Map holds only Objects, Sequences, scalars and nil, the
\* bytes of every encoder call that returned no error are one well-formed
\* document with one root element.
C3_WellFormedOutput ==
    \A i \in DOMAIN calls :
        Generic(MapV(mv)) /\ Call(i).err = NoErr => WellFormed(Call(i).b)

\* the emission with the root tag chosen by the rule the claim gives for
\* both entry points
ClaimedEmit(fn, m, tags) ==
    LET doIndent == fn = "XmlIndent"
        p == IF doIndent THEN Pretty(IndentUnit, Prefix) ELSE Pretty(<<>>, <<>>)
        lone == /\ Len(tags) = 0
                /\ MapLen(m) = 1
                /\ ~ /\ OnlyValue(m).k = "[]interface{}"
                      /\ \E i \in DOMAIN OnlyValue(m).v : OnlyValue(m).v[i].k # "map"
    IN  IF lone THEN marshalMapToXmlIndent(doIndent, OnlyKey(m), OnlyValue(m), p)
        ELSE marshalMapToXmlIndent(doIndent,
                 IF Len(tags) = 1 THEN tags[1] ELSE DefaultRootTag, MapV(m), p)

\* C4: Xml and XmlIndent both write the document whose root tag is the lone
\* key of a single-entry Map given no root tag, unless that key's value is a
\* Sequence with a member that is no Object; and else the given root tag,
\* or "doc", around the whole Map.
C4_RootTagRule ==
    \A i \in DOMAIN calls :
        LET r == CheckIsValid(ClaimedEmit(Call(i).fn, mv, rootTag))
        IN  Call(i).b = r.b /\ (Call(i).err = NoErr <=> r.err = NoErr)

AttrsAscending(toks) ==
    \A i \in DOMAIN toks :
        toks[i].t = "StartElement" =>
            \A j \in 1..(Len(toks[i].attr) - 1) :
                /\ StrLE(toks[i].attr[j].name, toks[i].attr[j + 1].name)
                /\ toks[i].attr[j].name # toks[i].attr[j + 1].name

\* of two elements of the same parent, the one written first has the
\* smaller, or the same, name
SiblingsAscending(toks) ==
    \A i, j \in DOMAIN toks :
        /\ i < j
        /\ toks[i].t = "StartElement" /\ toks[j].t = "StartElement"
        /\ Depth(toks, i) = Depth(toks, j)
        /\ \A n \in i..j : Depth(toks, n) >= Depth(toks, i)
        => StrLE(toks[i].name, toks[j].name)

\* C5: two calls of the same entry point on the Map return the same bytes
\* (and both succeed or both fail) whatever the orders in which the runtime
\* ranged over the maps; and in bytes that tokenize, the attributes of every
\* start tag ascend by name and the elements of every parent ascend by key.
C5_CanonicalOrder ==
    /\ \A i, j \in DOMAIN calls :
          Call(i).fn = Call(j).fn =>
              /\ Call(i).b = Call(j).b
              /\ Call(i).err = NoErr <=> Call(j).err = NoErr
    /\ \A i \in DOMAIN calls :
          LET t == Tokens(Call(i).b)
          IN  t.err = "EOF" =>
                  AttrsAscending(t.toks) /\ SiblingsAscending(t.toks)

\* an Object with two attributes and two child elements was encoded twice,
\* under two iteration orders
C5_Witness ==
    /\ Len(calls) = 2
    /\ Call(1).fn = Call(2).fn
    /\ Call(1).order # Call(2).order
    /\ Call(2).err = NoErr
    /\ KeyK \in DOMAIN mv
    /\ mv[KeyK].k = "map"
    /\ {KeyA, KeyB, KeyC, KeyD} \subseteq DOMAIN mv[KeyK].v
    /\ Len(Tokens(Call(2).b).toks[1].attr) = 2

\* a value that is written without content
EmptyContent(v) ==
    \/ v \in {Str(<<>>), Nil, Slice(<<>>)}
    \/ /\ v.k = "map"
       /\ \A key \in DOMAIN v.v : IsAttrKey(key) /\ v.v[key].k \in AttrValueKinds

\* ` name="value"` for the attributes of an Object, ascending by bare name
SortedAttrText(vv) ==
    LET ks == SortedKeys({key \in DOMAIN vv : IsAttrKey(key)})
    IN  Flatten([i \in 1..Len(ks) |->
            <<" ">> \o SubSeq(ks[i], lenAttrPrefix + 1, Len(ks[i]))
            \o <<"=", "\"">> \o AttrText(vv[ks[i]]) \o <<"\"">>])

\* C7: Xml of a single-entry Map whose value has no content writes
\* <tag attrs/> under the default policy and <tag attrs></tag> under the
\* Go-style policy, the attributes ascending.
C7_EmptyElemSyntax ==
    \A i \in DOMAIN calls :
        /\ Call(i).fn = "Xml"
        /\ rootTag = <<>>
        /\ MapLen(mv) = 1
        /\ EmptyContent(OnlyValue(mv))
        => LET key == OnlyKey(mv)
               v == OnlyValue(mv)
               attrs == IF v.k = "map" THEN SortedAttrText(v.v) ELSE <<>>
           IN  /\ Call(i).err = NoErr
               /\ Call(i).b = <<"<">> \o key \o attrs
                      \o (IF g.useGoXmlEmptyElemSyntax
                          THEN <<">">> \o EndTagText(key) ELSE <<"/", ">">>)

\* what the call wrote before its validity check
Emitted(fn) ==
    IF fn = "Xml" THEN XmlEmit(mv, rootTag)
    ELSE XmlIndentEmit(mv, Prefix, IndentUnit, rootTag)

\* C8: a call whose emission reported an error returns an error; with
\* validation enabled a call returns no error only if the emission reported
\* none and the bytes tokenize to the end, and returns no bytes with an error.
C8_ErrorsNotMasked ==
    \A i \in DOMAIN calls :
        /\ Emitted(Call(i).fn).err # NoErr => Call(i).err # NoErr
        /\ g.xmlCheckIsValid /\ Call(i).err = NoErr =>
               /\ Emitted(Call(i).fn).err = NoErr
               /\ Tokens(Call(i).b).err = "EOF"
        /\ g.xmlCheckIsValid /\ Call(i).err # NoErr => Call(i).b = <<>>

\* the attribute value types the claim allows
ClaimedAttrKinds ==
    {"string", "[]byte", "bool", "int", "int32", "int64", "uint64",
     "float32", "float64"}

RECURSIVE BadAttrKeys(_)
BadAttrKeys(v) ==
    CASE v.k = "map" ->
           {key \in DOMAIN v.v :
               IsAttrKey(key) /\ v.v[key].k \notin ClaimedAttrKinds}
           \cup UNION {BadAttrKeys(v.v[key]) : key \in DOMAIN v.v}
      [] v.k = "[]interface{}" -> UNION {BadAttrKeys(v.v[i]) : i \in DOMAIN v.v}
      [] OTHER -> {}

\* C9: a call on a Map in which some attribute-keyed entry holds no string,
\* byte sequence, boolean, integer or float fails with the error that names
\* such a key; a call on a Map with no such entry does not fail with that
\* error.
C9_InvalidAttributeType ==
    \A i \in DOMAIN calls :
        LET bad == BadAttrKeys(MapV(mv))
        IN  /\ bad # {} => Call(i).err.kind = "attr" /\ Call(i).err.key \in bad
            /\ bad = {} => Call(i).err.kind # "attr"

Unknown == Str(<<"U", "N", "K", "N", "O", "W", "N">>)

\* v with "UNKNOWN" in the place of every value the marshaler fails on
RECURSIVE Recovered(_)
Recovered(v) ==
    CASE v.k = "struct" /\ ~v.v -> Unknown
      [] v.k = "[]map" /\ Len(v.v) > 0 -> Unknown
      [] v.k = "map" -> MapV([key \in DOMAIN v.v |-> Recovered(v.v[key])])
      [] v.k = "[]interface{}" -> Slice([i \in DOMAIN v.v |-> Recovered(v.v[i])])
      [] OTHER -> v

\* C10: a call on a Map holding values the marshaler fails on returns no
\* error, and the bytes it would return for the Map with the string UNKNOWN
\* in the place of each such value.
C10_StructFailureRecovered ==
    \A i \in DOMAIN calls :
        LET rec == Recovered(MapV(mv)).v
            r == IF Call(i).fn = "Xml" THEN Xml(rec, rootTag)
                 ELSE XmlIndent(rec, Prefix, IndentUnit, rootTag)
        IN  rec # mv /\ r.err = NoErr =>
                Call(i).err = NoErr /\ Call(i).b = r.b

----------------------------------------------------------------------------
(* Errors of the tokenizer. *)

\* what the caller of the decode holds once it has returned
DecodeErr == dec.done /\ dec.err = "decode"
EndOfInput == dec.done /\ dec.err = "EOF"

FailureInv ==
    /\ dec.done /\ dec.err # "none" => dec.ret = EmptyMap /\ mv = EmptyMap
    /\ EndOfInput => starts = 0
    /\ dec.done /\ dec.err = "none" => MapLen(dec.ret) = 1

\* the step in which Token returns the error e
FailureStep ==
    \A e \in {"EOF", "syntax"} :
        pc = "decoding" /\ dec' = ParserStep(dec, TokenErr(e)) =>
            /\ dec'.done /\ dec'.ret = EmptyMap /\ mv' = EmptyMap
            /\ dec'.err = (IF e = "EOF" THEN "EOF" ELSE "decode")

\* C11: an error of the tokenizer other than io.EOF, at whatever depth of
\* open elements, ends the decode with the wrapped error and the nil map,
\* never with a part of the tree; io.EOF before any root element is returned
\* as it is, with the nil map; and a decode that returns no error returns a
\* map of one key.
C11_FailurePropagation == []FailureInv /\ [][FailureStep]_vars

\* a syntax error inside the third level of a document with four elements
C11_Witness == DecodeErr /\ open = 3 /\ starts = 4

----------------------------------------------------------------------------
(* Truncated input: the reader ends after some of the bytes of a document. *)

Documents ==
    { <<"<", "a", " ", "b", "=", "\"", "1", "\"", ">", "<", "b", ">",
         "x", "<", "/", "b", ">", "<", "b", "/", ">", "<", "/", "a",
         ">">>,
      <<"<", "a", ">", " ", "x", "<", "a", ">", "x", "<", "/", "a",
         ">", "&", "l", "t", ";", "<", "/", "a", ">">>,
      <<"<", "b", "/", ">">> }

InitTruncated ==
    /\ g = Defaults
    /\ dec = NewParser(FALSE)
    /\ open = 0
    /\ starts = 0
    /\ mv = EmptyMap
    /\ rootTag = <<>>
    /\ \E doc \in Documents : enc = Ret(doc, NoErr)
    /\ redec = NewParser(FALSE)
    /\ calls = <<>>
    /\ pc = "whole"

\* the reader has one byte less to give
Truncate ==
    /\ pc \in {"whole", "cut"}
    /\ Len(enc.b) > 0
    /\ enc' = Ret(SubSeq(enc.b, 1, Len(enc.b) - 1), NoErr)
    /\ pc' = "cut"
    /\ UNCHANGED <<g, dec, open, starts, mv, rootTag, redec, calls>>

\* NewMapXml(b, cast) on what the reader gives
DecodeTruncated ==
    /\ pc \in {"whole", "cut"}
    /\ \E r \in BOOLEAN : redec' = NewMapXml(enc.b, r)
    /\ pc' = "redecoded"
    /\ UNCHANGED <<g, dec, open, starts, mv, rootTag, enc, calls>>

NextTruncated == Truncate \/ DecodeTruncated

SpecTruncated == InitTruncated /\ [][NextTruncated]_vars

\* the elements still open after the tokens toks
OpenAfter(toks) == Depth(toks, Len(toks) + 1)

\* C12: when the input ends inside an element (a start tag was read and its
\* end tag was not), the decode returns the nil map and an error that is not
\* io.EOF.
C12_TruncatedInput ==
    pc = "redecoded" /\ OpenAfter(Tokens(enc.b).toks) > 0 =>
        /\ redec.done /\ redec.err = "decode"
        /\ redec.ret = EmptyMap

\* the input ended inside the second level, after a whole child element
C12_Witness ==
    /\ pc = "redecoded"
    /\ OpenAfter(Tokens(enc.b).toks) = 1
    /\ Len(Tokens(enc.b).toks) >= 5
    /\ redec.err = "decode"

----------------------------------------------------------------------------
(* Decoding under the policies of PrependAttrWithHyphen, CoerceKeysToLower, *)
(* IncludeTagSeqNum and SetCheckTagToSkipFunc, with and without cast.       *)

Policies ==
    { [Defaults EXCEPT !.attrPrefix = prefix, !.lowerCase = lower,
                       !.includeTagSeqNum = tagSeq, !.checkTagToSkip = skip] :
        prefix \in {<<"-">>, <<>>}, lower \in BOOLEAN, tagSeq \in BOOLEAN,
        skip \in {{}, {<<"$">>}} }

PolicyTags ==
    { StartElement(<<"a">>, << Attr(<<"a">>, <<"1">>) >>),
      StartElement(<<"A">>, <<>>),
      StartElement(SeqKey, <<>>) }

PolicyTexts == { <<"1">> }

InitPolicy ==
    /\ g \in Policies
    /\ \E r \in BOOLEAN : dec = NewParser(r)
    /\ open = 0
    /\ starts = 0
    /\ mv = EmptyMap
    /\ rootTag = <<>>
    /\ enc = Idle
    /\ redec = NewParser(FALSE)
    /\ calls = <<>>
    /\ pc = "decoding"

PolicyStartElement ==
    /\ starts < MaxElems
    /\ \E tok \in PolicyTags : Take(tok)
    /\ open' = open + 1
    /\ starts' = starts + 1

PolicyCharData ==
    /\ \E s \in PolicyTexts : Take(CharData(s))
    /\ UNCHANGED <<open, starts>>

NextPolicy ==
    \/ PolicyStartElement
    \/ TokEndElement
    \/ PolicyCharData
    \/ TokError

SpecPolicy == InitPolicy /\ [][NextPolicy]_vars

\* every Sequence of obj is the values kids has for its key, in their order
Homogeneous(obj, kids) ==
    \A key \in DOMAIN obj :
        obj[key].k = "[]interface{}" => obj[key].v = ValsOf(kids, key)

\* C13: under every policy, every Sequence in the map a call is building, and
\* in the Object it returns, holds exactly the values the call's child
\* elements of that key returned, in document order: no attribute value and
\* no text is a member.
C13_SequenceHomogeneity ==
    /\ \A f \in Frames : f.alloc => Homogeneous(f.na, f.kids)
    /\ LET f == dec.last.f
       IN  f.alloc /\ dec.last.nn[f.skey].k = "map" =>
               Homogeneous(dec.last.nn[f.skey].v, f.kids)

----------------------------------------------------------------------------
(* IncludeTagSeqNum *)

\* obj holds the child value kid under its key, alone or in a Sequence
Holds(obj, kid) ==
    /\ kid.key \in DOMAIN obj
    /\ \/ obj[kid.key] = kid.val
       \/ /\ obj[kid.key].k = "[]interface{}"
          /\ \E j \in 1..Len(obj[kid.key].v) : obj[kid.key].v[j] = kid.val

\* the i-th child a call took carries the ordinal i - 1
Ordinals(kids) ==
    \A i \in 1..Len(kids) :
        /\ kids[i].val.k = "map"
        /\ SeqKey \in DOMAIN kids[i].val.v
        /\ kids[i].val.v[SeqKey] = IntV(i - 1)

SeqInv ==
    g.includeTagSeqNum =>
      /\ \A f \in Frames :
            /\ f.seq = Len(f.kids)
            /\ Ordinals(f.kids)
            /\ \A i \in 1..Len(f.kids) : Holds(f.na, f.kids[i])
      /\ LET f == dec.last.f
         IN  \A i \in 1..Len(f.kids) : Holds(dec.last.nn[f.skey].v, f.kids[i])

\* the step in which a call returns to its parent's StartElement case: what
\* the parent stores for the element still holds the element's own children
SeqStep ==
    /\ g.includeTagSeqNum
    /\ pc = "decoding" /\ ~dec'.done
    /\ Len(dec'.stack) = Len(dec.stack) - 1
    => LET f == dec'.last.f
           top == dec'.stack[Len(dec'.stack)]
           held == top.kids[Len(top.kids)].val
       IN  /\ held.k = "map"
           /\ dec'.last.nn[f.skey].k # "map" =>
                 held.v[textK] = dec'.last.nn[f.skey]
           /\ \A i \in 1..Len(f.kids) : Holds(held.v, f.kids[i])

\* C17: with IncludeTagSeqNum on, the i-th child element a call decodes is
\* stored as a map (a scalar under the text key) with _seq = i - 1, alone or
\* as a member of a Sequence, in the call's map and in the Object it returns;
\* and the element keeps its children, each with its ordinal, when its own
\* parent stores it.
C17_SeqOrdinals == []SeqInv /\ [][SeqStep]_vars

\* the same, for elements that have no child element named _seq
C17_NoSeqElement ==
    [][(\A i \in 1..Len(dec'.last.f.kids) : dec'.last.f.kids[i].key # SeqKey)
       => SeqStep]_vars

----------------------------------------------------------------------------
(* The key cast is given for an element's text. *)

\* C16: in the element whose call returned last, no text was cast when the
\* cast flag is off; and when the skip function returns true for the text
\* key, the text stored under the text key is the string as read.
C16_KeyHint ==
    LET f == dec.last.f
        obj == dec.last.nn[f.skey]
    IN  f.alloc =>
          /\ ~dec.r => \A t \in f.texts : t.k = "string"
          /\ obj.k = "map" /\ textK \in DOMAIN obj.v /\ textK \in g.checkTagToSkip
               => obj.v[textK].k = "string"

\* the same, for elements whose text came after an attribute or a child
C16_TextAfterMember ==
    LET f == dec.last.f
        obj == dec.last.nn[f.skey]
    IN  f.alloc /\ MapLen(f.n) = 0 =>
          /\ ~dec.r => \A t \in f.texts : t.k = "string"
          /\ obj.k = "map" /\ textK \in DOMAIN obj.v /\ textK \in g.checkTagToSkip
               => obj.v[textK].k = "string"

----------------------------------------------------------------------------
(* cast, on its own: the caller has set the switches of CastNanInf,         *)
(* CastValuesToInt, CastValuesToFloat, CastValuesToBool and                 *)
(* SetCheckTagToSkipFunc, and the decoder calls cast(s, r, t).              *)

CastInputs ==
    { <<>>,
      <<"1">>,
      <<"0">>,
      <<"7">>,
      <<"0", "0", "1", "2", "3">>,
      <<"-", "1">>,
      <<"+", "1">>,
      <<"1", ".", "5">>,
      <<".", "5">>,
      <<"1", "e", "2">>,
      <<"-", "0">>,
      <<"9", "2", "2", "3", "3", "7", "2", "0", "3", "6", "8", "5", "4", "7", "7", "5", "8", "0", "7">>,
      <<"9", "2", "2", "3", "3", "7", "2", "0", "3", "6", "8", "5", "4", "7", "7", "5", "8", "0", "8">>,
      <<"-", "9", "2", "2", "3", "3", "7", "2", "0", "3", "6", "8", "5", "4", "7", "7", "5", "8", "0", "8">>,
      <<"-", "9", "2", "2", "3", "3", "7", "2", "0", "3", "6", "8", "5", "4", "7", "7", "5", "8", "0", "9">>,
      <<"1", "8", "4", "4", "6", "7", "4", "4", "0", "7", "3", "7", "0", "9", "5", "5", "1", "6", "1", "5">>,
      <<"1", "8", "4", "4", "6", "7", "4", "4", "0", "7", "3", "7", "0", "9", "5", "5", "1", "6", "1", "6">>,
      <<"t">>,
      <<"T">>,
      <<"f">>,
      <<"F">>,
      <<"t", "r", "u", "e">>,
      <<"T", "r", "u", "e">>,
      <<"T", "R", "U", "E">>,
      <<"t", "R", "U", "E">>,
      <<"f", "a", "l", "s", "e">>,
      <<"F", "a", "l", "s", "e">>,
      <<"F", "A", "L", "S", "E">>,
      <<"t", "r", "u", "e", "e">>,
      <<"f", "a", "l", "s", "e", "e">>,
      <<"n", "a", "n">>,
      <<"N", "a", "N">>,
      <<"i", "n", "f">>,
      <<"-", "i", "n", "f">>,
      <<"I", "n", "f">>,
      <<"+", "i", "n", "f">>,
      <<"-", "I", "n", "f">>,
      <<"i", "n", "f", "i", "n", "i", "t", "y">>,
      <<"x">>,
      <<"1", "x">>,
      <<"e">>,
      <<"-">>,
      <<".">> }

CastKeys == { <<>>, <<"k">>, <<"j">> }

CastPolicies ==
    { [Defaults EXCEPT !.castNanInf = nanInf, !.castToInt = int,
                       !.castToFloat = float, !.castToBool = bool,
                       !.checkTagToSkip = skip] :
        nanInf \in BOOLEAN, int \in BOOLEAN, float \in BOOLEAN,
        bool \in BOOLEAN, skip \in {{}, {<<"k">>}} }

InitCast ==
    /\ g \in CastPolicies
    /\ dec = NewParser(FALSE)
    /\ open = 0
    /\ starts = 0
    /\ mv = EmptyMap
    /\ rootTag \in CastInputs
    /\ enc = Idle
    /\ redec = NewParser(FALSE)
    /\ calls = <<>>
    /\ pc = "idle"

\* cast(rootTag, r, t); the call and what it returned are kept in calls
CallCast ==
    /\ pc = "idle"
    /\ \E r \in BOOLEAN, t \in CastKeys :
          calls' = << [s |-> rootTag, r |-> r, t |-> t,
                       ret |-> cast(rootTag, r, t)] >>
    /\ pc' = "cast"
    /\ UNCHANGED <<g, dec, open, starts, mv, rootTag, enc, redec>>

NextCast == CallCast

SpecCast == InitCast /\ [][NextCast]_vars

\* the call is one that casts: the flag is on and the key is not skipped
Casting(c) == c.r /\ ~(c.t # <<>> /\ c.t \in g.checkTagToSkip)

Guarded(s) == ~g.castNanInf /\ ToLower(s) \in NanInf

BoolScreen(s) == Len(s) \in 1..5 /\ s[1] \in {"t", "T", "f", "F"}

\* C15: a casting call returns the string for the names NaN, Inf, -Inf unless
\* CastNanInf is on; else an int64 if integers are on and the text is a signed
\* integer; else a uint64 if integers are on and it is an unsigned one; else a
\* float64 if floats are on and it is a float; else a bool if booleans are on
\* and it is a boolean text of 1 to 5 characters that starts with t, T, f or
\* F; else the string.  So "1" and "0" are never returned as booleans.
C15_CasterOrdering ==
    \A i \in DOMAIN calls :
        LET c == calls[i]
            s == c.s
            kind == c.ret.k
            int == g.castToInt /\ ParseIntOk(s)
            uint == g.castToInt /\ ParseUintOk(s)
            float == g.castToFloat /\ ParseFloatOk(s)
            bool == g.castToBool /\ BoolScreen(s) /\ ParseBoolOk(s)
        IN  Casting(c) =>
              /\ Guarded(s) => c.ret = Str(s)
              /\ kind \in {"string", "int64", "uint64", "float64", "bool"}
              /\ kind = "int64" <=> ~Guarded(s) /\ int
              /\ kind = "uint64" <=> ~Guarded(s) /\ ~int /\ uint
              /\ kind = "float64" <=> ~Guarded(s) /\ ~int /\ ~uint /\ float
              /\ kind = "bool" <=>
                    ~Guarded(s) /\ ~int /\ ~uint /\ ~float /\ bool
              /\ kind = "string" => c.ret = Str(s)
              /\ s \in {<<"1">>, <<"0">>} => kind # "bool"
              /\ kind = "bool" => BoolScreen(s)

\* "1" was cast with only the booleans on, and came back as the string
C15_Witness ==
    \E i \in DOMAIN calls :
        /\ Casting(calls[i])
        /\ ~g.castToInt /\ ~g.castToFloat /\ g.castToBool
        /\ calls[i].s = <<"1">>
        /\ calls[i].ret = Str(<<"1">>)

\* the pass-through of cast: the string as it is when the skip function holds
\* for the key, whatever the flag and the switches, and when the flag is off
CastPassThrough ==
    \A i \in DOMAIN calls :
        ~Casting(calls[i]) => calls[i].ret = Str(calls[i].s)

----------------------------------------------------------------------------
(* A []string value inside a Map. *)

StringSlices ==
    { [k |-> "[]string", v |-> q] :
        q \in UNION { [1..n -> {<<"x">>, <<>>}] : n \in 0..MaxSeqLen } }

StringMaps ==
    { [m |-> Map2(KeyK, l, KeyM, X), tags |-> t] :
        l \in StringSlices, t \in RootTags }
    \cup { [m |-> Map1(KeyK, l), tags |-> << <<"r">> >>] : l \in StringSlices }

InitStrings ==
    /\ g = Defaults
    /\ dec = NewParser(FALSE)
    /\ open = 0
    /\ starts = 0
    /\ \E sm \in StringMaps : mv = sm.m /\ rootTag = sm.tags
    /\ enc = Idle
    /\ redec = NewParser(FALSE)
    /\ calls = <<>>
    /\ pc = "decoded"

NextStrings == CallXml \/ CallXmlIndent

SpecStrings == InitStrings /\ [][NextStrings]_vars

\* v with a []interface{} of the same strings in the place of every []string
RECURSIVE AsInterfaces(_)
AsInterfaces(v) ==
    CASE v.k = "[]string" -> Slice([i \in DOMAIN v.v |-> Str(v.v[i])])
      [] v.k = "map" -> MapV([key \in DOMAIN v.v |-> AsInterfaces(v.v[key])])
      [] OTHER -> v

\* C19: a call on a Map that holds a []string under a key returns what it
\* returns for the Map that holds the []interface{} of the same strings
\* under that key.
C19_StringSliceAsSequence ==
    \A i \in DOMAIN calls :
        LET same == AsInterfaces(MapV(mv)).v
            r == IF Call(i).fn = "Xml" THEN Xml(same, rootTag)
                 ELSE XmlIndent(same, Prefix, IndentUnit, rootTag)
        IN  Call(i).err = r.err /\ Call(i).b = r.b

----------------------------------------------------------------------------
(* Escaping: XMLEscapeChars(true), then Xml or XmlIndent, then NewMapXml of  *)
(* the bytes.                                                               *)

Example == <<"5", " ", "<", " ", "1", "0", " ", "&", " ", "t", "r", "u", "e">>
ExampleEscaped == <<"5", " ", "&", "l", "t", ";", " ", "1", "0", " ", "&", "a", "m", "p", ";", " ", "t", "r", "u", "e">>

SpecialTexts == { Example, <<"\"", "'", ">">>, <<"&", "a", "m", "p", ";">> }

ByteSlice(s) == [k |-> "[]byte", v |-> s]

\* a string as element text, as []byte, as attribute value and text-key
\* content, as text-key content beside a child, and as member of a Sequence
EscapeMaps ==
    { Map1(KeyK, Str(s)) : s \in SpecialTexts }
    \cup { Map1(KeyK, ByteSlice(s)) : s \in SpecialTexts }
    \cup { Map1(KeyK, MapV(Map2(KeyA, Str(s), textK, Str(u)))) :
             s \in SpecialTexts, u \in SpecialTexts }
    \cup { Map1(KeyK, MapV(Map2(textK, Str(s), KeyC, Str(u)))) :
             s \in SpecialTexts, u \in SpecialTexts }
    \cup { Map1(KeyK, MapV(Map1(KeyC, Slice(<<Str(s), Str(u)>>)))) :
             s \in SpecialTexts, u \in SpecialTexts }

InitEscape ==
    /\ g = Defaults
    /\ dec = NewParser(FALSE)
    /\ open = 0
    /\ starts = 0
    /\ mv \in EscapeMaps
    /\ rootTag = <<>>
    /\ enc = Idle
    /\ redec = NewParser(FALSE)
    /\ calls = <<>>
    /\ pc = "decoded"

NextEscape == XMLEscapeChars \/ CallXml \/ CallXmlIndent \/ CallNewMapXml

SpecEscape == InitEscape /\ [][NextEscape]_vars

\* v as the decoder returns it: a []byte comes back as a string
RECURSIVE AsStrings(_)
AsStrings(v) ==
    CASE v.k = "[]byte" -> Str(v.v)
      [] v.k = "map" -> MapV([key \in DOMAIN v.v |-> AsStrings(v.v[key])])
      [] v.k = "[]interface{}" -> Slice([i \in DOMAIN v.v |-> AsStrings(v.v[i])])
      [] OTHER -> v

\* the bytes of <k a="s">u</k> and of <k>s</k> with the values escaped once
EscapedOnce(m) ==
    LET v == m[KeyK]
        tag(attrs, text) ==
            <<"<", "k">> \o attrs \o <<">">> \o text \o <<"<", "/", "k", ">">>
    IN  IF v.k = "map"
        THEN tag(<<" ", "a", "=", "\"">> \o escapeChars(v.v[KeyA].v) \o <<"\"">>,
                 escapeChars(v.v[textK].v))
        ELSE tag(<<>>, escapeChars(v.v))

\* C14: with escaping on, the text 5 < 10 & true is written by Xml as
\* 5 &lt; 10 &amp; true; element text, []byte text, attribute values and
\* text-key content are written with each of & < > " ' replaced by its
\* entity once; and NewMapXml of the bytes of Xml or XmlIndent returns the
\* strings as they were.
C14_Escaping ==
    g.xmlEscapeChars =>
      /\ \A i \in DOMAIN calls :
            /\ Call(i).err = NoErr
            /\ Call(i).fn = "Xml" /\ mv = Map1(KeyK, Str(Example)) =>
                  Call(i).b = <<"<", "k", ">">> \o ExampleEscaped
                              \o <<"<", "/", "k", ">">>
            /\ /\ Call(i).fn = "Xml"
               /\ \/ mv[KeyK].k \in {"string", "[]byte"}
                  \/ mv[KeyK].k = "map" /\ KeyA \in DOMAIN mv[KeyK].v
               => Call(i).b = EscapedOnce(mv)
      /\ pc = "redecoded" =>
            redec.err = "none" /\ MapV(redec.ret) = AsStrings(MapV(mv))

\* the example went through Xml escaped and came back
C14_Witness ==
    /\ g.xmlEscapeChars
    /\ pc = "redecoded"
    /\ mv = Map1(KeyK, MapV(Map2(KeyA, Str(Example), textK, Str(Example))))
    /\ Call(Len(calls)).fn = "Xml"
    /\ redec.ret = mv

----------------------------------------------------------------------------
(* HandleXmlReader and HandleXmlReaderRaw: the same loop, the second with   *)
(* the raw bytes as a further argument of the handlers.  The reader holds  *)
(* the documents of rootTag one after the other; each NewMapXmlReader      *)
(* reads on from where the last one stopped, which is taken to be the end  *)
(* of its document; open is what it returns at each attempt, and starts   *)
(* is n.  The handlers are the caller's: they return, with either answer. *)
(* calls is the log of the handler calls.                                  *)

StreamDocs ==
    { <<"<", "b", "/", ">">>,
      <<"<", "a", ">", "x", "<", "/", "a", ">">>,
      <<"<", "a", ">", "<", "/", "b", ">">> }

Streams == UNION { [1..n -> StreamDocs] : n \in 0..MaxDocs }

\* NewMapXmlReader at the n-th attempt: the next document, or the end
Attempt(stream, n) ==
    NewMapXml(IF n <= Len(stream) THEN stream[n] ELSE <<>>, FALSE)

\* merr != nil && merr != io.EOF, and the test without its second half
AnyError(merr) == merr # "none"
IsFailure(merr) == merr # "none" /\ merr # "EOF"

\* fmt.Errorf("[xmlReader: %d] %s", n, merr.Error())
TaggedErr(n) == [kind |-> "xmlReader", key |-> Itoa(n)]

InitHandle ==
    /\ g = Defaults
    /\ dec = NewParser(FALSE)
    /\ rootTag \in Streams
    /\ open = [n \in 1..(Len(rootTag) + 1) |-> Attempt(rootTag, n)]
    /\ starts = 0
    /\ mv = EmptyMap
    /\ enc = Idle
    /\ redec = NewParser(FALSE)
    /\ calls = <<>>
    /\ pc = "loop"

\* m, merr := NewMapXmlReader(xmlReader); n++; and the tests up to the call
\* of a handler, or the break at io.EOF
ReadNext ==
    /\ pc = "loop"
    /\ redec' = open[starts + 1]
    /\ starts' = starts + 1
    /\ pc' = IF IsFailure(redec'.err) THEN "errHandler"
             ELSE IF MapLen(redec'.ret) # 0 THEN "mapHandler"
             ELSE IF redec'.err = "EOF" THEN "returned"
             ELSE "loop"
    /\ mv' = redec'.ret
    /\ UNCHANGED <<g, dec, open, rootTag, enc, calls>>

\* errHandler(merr) returns ok: continue, or return merr
ErrHandlerReturns ==
    /\ pc = "errHandler"
    /\ \E ok \in BOOLEAN :
         /\ calls' = Append(calls, [fn |-> "errHandler", n |-> starts,
                                    merr |-> redec.err, err |-> TaggedErr(starts),
                                    ok |-> ok])
         /\ pc' = IF ok THEN "loop" ELSE "returned"
         /\ enc' = IF ok THEN enc ELSE Ret(<<>>, TaggedErr(starts))
    /\ UNCHANGED <<g, dec, open, starts, mv, rootTag, redec>>

\* mapHandler(m) returns ok: go on (or break at io.EOF), or break
MapHandlerReturns ==
    /\ pc = "mapHandler"
    /\ \E ok \in BOOLEAN :
         /\ calls' = Append(calls, [fn |-> "mapHandler", n |-> starts,
                                    m |-> mv, ok |-> ok])
         /\ pc' = IF ok /\ redec.err # "EOF" THEN "loop" ELSE "returned"
    /\ UNCHANGED <<g, dec, open, starts, mv, rootTag, enc, redec>>

NextHandle == ReadNext \/ ErrHandlerReturns \/ MapHandlerReturns

\* the handlers return, and the loop goes on while it can
SpecHandle == InitHandle /\ [][NextHandle]_vars /\ WF_vars(NextHandle)

HandleInv ==
    \* one document at a time, in the order of the stream, none twice
    /\ \A i \in DOMAIN calls : \A j \in DOMAIN calls :
          i < j => calls[i].n < calls[j].n
    /\ \A i \in DOMAIN calls :
          LET c == calls[i]
              out == Attempt(rootTag, c.n)
          IN  /\ c.n \in 1..Len(rootTag)
              /\ c.fn = "errHandler" =>
                    /\ out.err = "decode" /\ c.merr # "EOF"
                    /\ c.err = TaggedErr(c.n)
              /\ c.fn = "mapHandler" =>
                    out.err = "none" /\ c.m = out.ret /\ MapLen(c.m) # 0
              \* a handler that returned false was the last one called
              /\ ~c.ok => i = Len(calls) /\ pc = "returned"
    \* every attempt made so far was handed to a handler, but the one in hand
    /\ \A k \in 1..starts :
          k <= Len(rootTag) /\ (k < starts \/ pc \in {"loop", "returned"}) =>
              \E i \in DOMAIN calls : calls[i].n = k
    /\ pc = "returned" =>
          LET stopped == calls # <<>> /\ ~calls[Len(calls)].ok
          IN  /\ enc.err # NoErr <=>
                    stopped /\ calls[Len(calls)].fn = "errHandler"
              /\ enc.err # NoErr => enc.err = calls[Len(calls)].err
              /\ ~stopped => starts = Len(rootTag) + 1 /\ redec.err = "EOF"

\* C18: the handlers are called for one document after the other in stream
\* order, each attempt once; errHandler only for decode errors other than
\* io.EOF, with the error tagged with the number of the attempt; mapHandler
\* only with a map that is not empty; the call returns the tagged error if
\* and only if errHandler returned false, nil when mapHandler returned
\* false, and nil at io.EOF; and it returns in the end.
C18_HandlerProtocol == []HandleInv /\ <>(pc = "returned")

\* the loop went on after an error and a map, and returned nil at io.EOF
C18_Witness ==
    /\ pc = "returned" /\ enc.err = NoErr
    /\ Len(calls) = 3 /\ calls[3].ok
    /\ \E i \in DOMAIN calls : calls[i].fn = "errHandler"
    /\ \E i \in DOMAIN calls : calls[i].fn = "mapHandler"

-----------------------------------------------------------------------------
(* SetGlobalKeyMapPrefix: the eight reserved keys under repeated renaming. *)

\* strings.ReplaceAll(s, old, new) for a non-empty old: every non-overlapping
\* occurrence of old, left to right, is replaced by new.
RECURSIVE ReplaceAll(_, _, _)
ReplaceAll(s, old, new) ==
    IF Len(s) < Len(old) THEN s
    ELSE IF SubSeq(s, 1, Len(old)) = old
         THEN new \o ReplaceAll(SubSeq(s, Len(old) + 1, Len(s)), old, new)
         ELSE <<Head(s)>> \o ReplaceAll(Tail(s), old, new)

\* The variables in the order SetGlobalKeyMapPrefix assigns them.
KeyOrder ==
    << "textK", "seqK", "commentK", "directiveK", "procinstK", "targetK",
       "instK", "attrK" >>

\* The statements of SetGlobalKeyMapPrefix from the i-th on. k[0:1] panics
\* on an empty k; the assignments made before the panic stay.
RECURSIVE Rename(_, _, _)
Rename(gg, i, s) ==
    IF i > Len(KeyOrder) THEN [g |-> gg, panicked |-> FALSE]
    ELSE IF gg[KeyOrder[i]] = <<>> THEN [g |-> gg, panicked |-> TRUE]
    ELSE Rename([gg EXCEPT ![KeyOrder[i]] = ReplaceAll(@, <<Head(@)>>, s)],
                i + 1, s)

\* The prefixes the callers supply.
KeyPrefixes ==
    { <<>>, <<"x">>, <<"s">>, <<"_">>, <<"a", "b">>, <<"x", "y">> }

InitKeys ==
    /\ g = Defaults
    /\ dec = NewParser(FALSE)
    /\ open = 0
    /\ starts = 0
    /\ mv = EmptyMap
    /\ rootTag = <<>>
    /\ enc = Idle
    /\ redec = NewParser(FALSE)
    /\ calls = <<>>
    /\ pc = "ready"

SetGlobalKeyMapPrefix ==
    /\ pc = "ready"
    /\ Len(calls) < MaxRenames
    /\ \E s \in KeyPrefixes :
         LET r == Rename(g, 1, s)
         IN  /\ g' = r.g
             /\ calls' = Append(calls, s)
             /\ pc' = IF r.panicked THEN "panicked" ELSE "ready"
    /\ UNCHANGED <<dec, open, starts, mv, rootTag, enc, redec>>

NextKeys == SetGlobalKeyMapPrefix

SpecKeys == InitKeys /\ [][NextKeys]_vars

\* The suffix each reserved key starts with.
Suffix(k) == Tail(Defaults[k])

NonEmptyPrefixes == \A i \in DOMAIN calls : calls[i] # <<>>

Renamed(p) == \A i \in DOMAIN KeyOrder : g[KeyOrder[i]] = p \o Suffix(KeyOrder[i])

\* C20: after any sequence of SetGlobalKeyMapPrefix calls with non-empty
\* prefixes, each of the eight reserved keys is the most recently supplied
\* prefix followed by that key's original suffix, and no call has panicked.
C20_ReservedKeyRenaming ==
    (calls # <<>> /\ NonEmptyPrefixes)
        => (Renamed(calls[Len(calls)]) /\ pc # "panicked")

\* The first call on the default keys renames all eight as described.
C20_FirstCall ==
    (Len(calls) = 1 /\ NonEmptyPrefixes) => (Renamed(calls[1]) /\ pc # "panicked")

\* With non-empty prefixes no call panics.
C20_NoPanic == NonEmptyPrefixes => pc # "panicked"

\* A call after an empty prefix panics.
C20_PanicReached == pc = "panicked"

-----------------------------------------------------------------------------
(* Frames and events.  The tokenizer numbers the StartElement tokens it     *)
(* delivers; calls holds the numbers of the elements it has open, outermost *)
(* first, and enc the numbers of the elements the running xmlToMapParser    *)
(* calls were made for, outermost first (the call with skey "" is for no    *)
(* element).                                                                *)

StreamName == <<"s", "t", "r", "e", "a", "m">>

StreamPolicies ==
    { [Defaults EXCEPT !.handleXMPPStreamTag = xmpp, !.lowerCase = lower] :
        xmpp \in BOOLEAN, lower \in BOOLEAN }

StreamTags ==
    { StartElement(<<"a">>, <<>>),
      StartElement(StreamName, << Attr(<<"a">>, <<"1">>) >>),
      StartElement(<<"S", "t", "r", "e", "a", "m">>, <<>>) }

InitStream ==
    /\ g \in StreamPolicies
    /\ dec = NewParser(FALSE)
    /\ open = 0
    /\ starts = 0
    /\ mv = EmptyMap
    /\ rootTag = <<>>
    /\ enc = <<>>
    /\ redec = NewParser(FALSE)
    /\ calls = <<>>
    /\ pc = "decoding"

\* the parser takes the tokenizer's next token
StreamTake(tok) ==
    /\ pc = "decoding"
    /\ dec' = ParserStep(dec, tok)
    /\ pc' = IF dec'.done THEN "decoded" ELSE "decoding"
    /\ mv' = IF dec'.done THEN dec'.ret ELSE mv
    /\ UNCHANGED <<g, rootTag, redec>>

\* A StartElement: the call made for it stays on the stack unless it returns
\* at line 416.
StreamStartElement ==
    /\ starts < MaxElems
    /\ \E tok \in StreamTags : StreamTake(tok)
    /\ open' = open + 1
    /\ starts' = starts + 1
    /\ calls' = Append(calls, starts')
    /\ enc' = IF Len(dec'.stack) > Len(dec.stack) THEN Append(enc, starts') ELSE enc

\* An EndElement: the innermost call returns at line 517.
StreamEndElement ==
    /\ open > 0
    /\ StreamTake(EndElement)
    /\ open' = open - 1
    /\ calls' = SubSeq(calls, 1, Len(calls) - 1)
    /\ enc' = SubSeq(enc, 1, Len(enc) - 1)
    /\ UNCHANGED starts

StreamCharData ==
    /\ StreamTake(CharData(<<"x">>))
    /\ UNCHANGED <<open, starts>>
    /\ UNCHANGED <<enc, calls>>

NextStream == StreamStartElement \/ StreamEndElement \/ StreamCharData

SpecStream == InitStream /\ [][NextStream]_vars

\* what one step of the decoder has to respect
MatchStep ==
    pc = "decoding" =>
        \* an EndElement or a CharData goes to the call made for the element
        \* it belongs to, under the calls made for that element's ancestors
        /\ starts' = starts => enc = calls
        \* a successful return is the consumption of the root's EndElement
        /\ (dec'.done /\ dec'.err = "none")
               => (Len(calls) = 1 /\ calls' = <<>> /\ enc = calls)

\* C21: under every policy setting, stream-envelope handling with an element
\* named stream below the root included, each EndElement is consumed by the
\* call that was made for its matching StartElement, the members of each
\* child land in that child's Object, and a successful decode returns
\* exactly when the root's own EndElement has been consumed.
C21_FrameEventMatching == [][MatchStep]_vars

\* Without stream-envelope handling the events and the calls match.
C21_WithoutEnvelope == [][~g.handleXMPPStreamTag => MatchStep]_vars

\* An element named stream below the root: its call has returned and its
\* events go to the call of its parent.
C21_Mismatch == pc = "decoding" /\ Len(enc) < Len(calls)

\* The decode has returned on an EndElement that is not the root's.
C21_EarlyReturn ==
    /\ pc = "decoded" /\ dec.err = "none"
    /\ calls # <<>>
    /\ ~IsXMPPStream(dec.last.f)

-----------------------------------------------------------------------------
(* Xml and XmlIndent on the same Map.  The padding is made of tabs, which   *)
(* occur in no key and no value of these Maps, so that the bytes XmlIndent  *)
(* adds are the tabs and the newlines of its output.                        *)

EmptySlice == [k |-> "[]interface{}", v |-> <<>>]

IndentMaps ==
    { Map1(KeyK, X),
      Map1(KeyK, Str(<<>>)),
      Map1(KeyK, MapV(Map1(KeyC, X))),
      Map1(KeyK, MapV(Map2(KeyC, X, KeyD, X))),
      Map1(KeyK, MapV(Map2(KeyA, One, KeyC, MapV(Map1(KeyD, X))))),
      Map1(KeyK, MapV(Map2(textK, X, KeyC, X))),
      Map1(KeyK, MapV(Map2(KeyA, One, textK, X))),
      Map1(KeyK, MapV(Map1(KeyA, One))),
      Map1(KeyK, Slice(<<X, MapV(Map1(KeyC, X))>>)),
      Map1(KeyK, MapV(Map1(KeyC, Slice(<<X, X>>)))),
      Map1(KeyK, MapV(Map1(KeyC, MapV(Map1(KeyD, EmptySlice))))),
      Map2(KeyK, EmptySlice, KeyM, X),
      Map2(KeyK, X, KeyM, X),
      EmptyMap }

\* prefix and indent of XmlIndent
IndentArgs ==
    { [prefix |-> <<>>, indent |-> <<"\t">>],
      [prefix |-> <<"\t">>, indent |-> <<"\t", "\t">>] }

InitIndent ==
    /\ \E go \in BOOLEAN : g = [Defaults EXCEPT !.useGoXmlEmptyElemSyntax = go]
    /\ dec = NewParser(FALSE)
    /\ open = 0
    /\ starts = 0
    /\ mv \in IndentMaps
    /\ rootTag \in RootTags
    /\ enc = Idle
    /\ redec = NewParser(FALSE)
    /\ calls = <<>>
    /\ pc = "decoded"

\* mv.XmlIndent(prefix, indent, rootTag...)
CallXmlIndentWith ==
    /\ pc \in {"decoded", "encoded"}
    /\ Len(calls) < MaxCalls
    /\ \E a \in IndentArgs :
         /\ enc' = XmlIndent(mv, a.prefix, a.indent, rootTag)
         /\ calls' = Append(calls, [fn |-> "XmlIndent", b |-> enc'.b, err |-> enc'.err,
                                    prefix |-> a.prefix, indent |-> a.indent])
    /\ pc' = "encoded"
    /\ UNCHANGED <<g, dec, open, starts, mv, rootTag, redec>>

NextIndent == CallXml \/ CallXmlIndentWith

SpecIndent == InitIndent /\ [][NextIndent]_vars

\* b without the bytes of the padding and the newlines
Unpadded(b) == SelectSeq(b, LAMBDA c : c \notin {"\t", "\n"})

RECURSIVE Repeat(_, _)
Repeat(s, n) == IF n = 0 THEN <<>> ELSE s \o Repeat(s, n - 1)

IsStartTag(b, i) == b[i] = "<" /\ i < Len(b) /\ b[i + 1] # "/"
IsEndTag(b, i) == b[i] = "<" /\ i < Len(b) /\ b[i + 1] = "/"
IsEmptyTagEnd(b, i) == b[i] = "/" /\ i < Len(b) /\ b[i + 1] = ">"

\* the elements open at byte i
DepthAt(b, i) ==
    Cardinality({j \in 1..(i - 1) : IsStartTag(b, j)})
    - Cardinality({j \in 1..(i - 1) : IsEndTag(b, j) \/ IsEmptyTagEnd(b, j)})

\* what stands on the line of byte i before it
LineBefore(b, i) ==
    LET nl == {j \in 1..(i - 1) : b[j] = "\n"} \cup {0}
        from == CHOOSE j \in nl : \A k \in nl : k <= j
    IN  SubSeq(b, from + 1, i - 1)

\* the tag before the end tag at byte i closed an element: the element the
\* end tag closes has child elements
ClosesParent(b, i) ==
    LET lt == {j \in 1..(i - 1) : b[j] = "<"}
        prev == CHOOSE j \in lt : \A k \in lt : k <= j
    IN  lt # {} /\ (IsEndTag(b, prev) \/ \E k \in prev..(i - 1) : IsEmptyTagEnd(b, k))

\* every element starts on a line of its own at the padding of its depth
OwnLines(c) ==
    \A i \in 1..Len(c.b) :
        IsStartTag(c.b, i)
            => LineBefore(c.b, i) = c.prefix \o Repeat(c.indent, DepthAt(c.b, i))

\* the end tag of an element with child elements is at the padding of its
\* start tag
EndTagsAligned(c) ==
    \A i \in 1..Len(c.b) :
        (IsEndTag(c.b, i) /\ ClosesParent(c.b, i))
            => LineBefore(c.b, i) = c.prefix \o Repeat(c.indent, DepthAt(c.b, i) - 1)

SameBytes ==
    \A i, j \in DOMAIN calls :
        (calls[i].fn = "Xml" /\ calls[j].fn = "XmlIndent")
            => (calls[j].err = calls[i].err /\ Unpadded(calls[j].b) = calls[i].b)

Layout ==
    \A j \in DOMAIN calls :
        (calls[j].fn = "XmlIndent" /\ calls[j].err = NoErr)
            => (OwnLines(calls[j]) /\ EndTagsAligned(calls[j]))

\* C22: XmlIndent's output without the padding and the newlines it inserted
\* is Xml's output for the same value and root tag; in it every child
\* element starts on its own line one indent unit deeper than its parent, and
\* the end tag of an element with child elements is at the padding of its
\* start tag.
C22_PrettyPrinting == SameBytes /\ Layout

\* The bytes are the same for every Map.
C22_SameBytes == SameBytes

HasEmptySlice(v) ==
    \/ v = EmptySlice
    \/ v.k = "map" /\ \E k \in DOMAIN v.v :
         \/ v.v[k] = EmptySlice
         \/ v.v[k].k = "map" /\ \E k2 \in DOMAIN v.v[k].v :
              \/ v.v[k].v[k2] = EmptySlice
              \/ v.v[k].v[k2].k = "map" /\ EmptySlice \in {v.v[k].v[k2].v[k3] : k3 \in DOMAIN v.v[k].v[k2].v}

\* The layout is as described for a Map that holds no empty []interface{}.
C22_NoEmptySlice == ~HasEmptySlice(MapV(mv)) => Layout

====
